---------------------------- MODULE Spec2Model ----------------------------
(***************************************************************************)
(* The frame-processing pipeline of construction-processor:                *)
(*   processor/pipeline.py          run(): the orchestrator's frame loop   *)
(*   processor/stages/detection.py  DetectionStage                         *)
(* The tracking, spatial and VLM stages, the writers of file_io and the    *)
(* values of config are not part of the sources at hand; they are modelled *)
(* from their contracts (sections 4.3-4.6 of the specification).           *)
(***************************************************************************)
EXTENDS Integers, Sequences, FiniteSets, TLC

(* ------------------------------ bounds --------------------------------- *)

\* The longest video, in frames.
MaxFrames == 4

\* FRAME_SKIP ranges over 1..MaxFrameSkip.
MaxFrameSkip == 2

(* ------------------------- configuration ------------------------------- *)

\* cap.get(CAP_PROP_FPS): 0 when the container does not tell.
RawFpsValues == {0, 25}

DEFAULT_FPS == 30

\* fps = cap.get(cv2.CAP_PROP_FPS) or 30.0
FpsOf(raw) == IF raw = 0 THEN DEFAULT_FPS ELSE raw

\* Real-world metres per pixel (the calibration transform).
M_PER_PX == 2

\* proximity_alert{critical} at or below this separation (metres).
CRIT_DIST_M == 2

\* proximity_alert{warning} at or below this separation (metres).
WARN_DIST_M == 4

\* ttc_warning when the closing speed covers the separation within this many frames.
TTC_HORIZON == 3

\* Tracks unmatched for more than this many updates are dropped.
PATIENCE == 1

\* The positions a track's trail holds at most (config.TRAIL_LEN).
TRAIL_LEN == 2

\* The zone "crane_radius" is the half line x_m >= ZONE_FROM_M.
ZONE_FROM_M == 6

ZoneName == "crane_radius"

(* ------------------------------ helpers -------------------------------- *)

\* dict.get(k, default)
Get(e, k, default) == IF k \in DOMAIN e THEN e[k] ELSE default

Abs(n) == IF n < 0 THEN -n ELSE n

Range(s) == {s[i] : i \in 1..Len(s)}

(* ------------------------------ frames --------------------------------- *)

\* What a frame shows: the objects on site, each with its class, its pixel
\* position and what its wearer has on.
Person(x, hh, vs) == [class_name |-> "person", x |-> x, hardhat |-> hh, vest |-> vs]

Vehicle(x) == [class_name |-> "vehicle", x |-> x, hardhat |-> "NA", vest |-> "NA"]

Scenes ==
    { <<>>,
      << Person(0, "YES", "YES") >>,
      << Person(1, "NO", "YES"), Vehicle(4) >>,
      << Person(2, "YES", "NO"), Vehicle(4) >>,
      << Person(3, "NO", "NO"), Vehicle(4) >> }

(* -------------------------- DetectionStage ----------------------------- *)

\* DetectionStage.__init__: no model yet. loads and warnings count the load
\* attempts and the logger.warning calls of _load_model.
DetectionInit(frame_skip) ==
    [model |-> "None", frame_skip |-> frame_skip, loads |-> 0, warnings |-> 0]

\* What the import and the construction of RTDETR can do.
LoadOutcomes == {"ok", "import_error", "load_error"}

\* What model.predict can do on a frame.
PredictOutcomes == {"ok", "raise"}

\* _load_model whose "except Exception" branch forgets the placeholder.
LoadModelForgetsPlaceholder(self, outcome) ==
    IF self.model # "None" THEN self
    ELSE IF outcome = "ok"
         THEN [self EXCEPT !.model = "RTDETR", !.loads = @ + 1]
         ELSE IF outcome = "import_error"
         THEN [self EXCEPT !.model = "placeholder", !.loads = @ + 1,
                           !.warnings = @ + 1]
         ELSE [self EXCEPT !.loads = @ + 1, !.warnings = @ + 1]

\* _load_model without its early return: every call loads again.
LoadModelEveryCall(self, outcome) ==
    IF outcome = "ok"
    THEN [self EXCEPT !.model = "RTDETR", !.loads = @ + 1]
    ELSE [self EXCEPT !.model = "placeholder", !.loads = @ + 1,
                      !.warnings = @ + 1]

\* DetectionStage._load_model: the model is loaded on first use; a failed
\* load warns and leaves the placeholder, so that it is not tried again.
LoadModel(self, outcome) ==
    IF self.model # "None" THEN self
    ELSE IF outcome = "ok"
         THEN [self EXCEPT !.model = "RTDETR", !.loads = @ + 1]
         ELSE [self EXCEPT !.model = "placeholder", !.loads = @ + 1,
                           !.warnings = @ + 1]

\* model.predict and the conversion of its boxes (detection.py 59-82): one
\* detection per object the frame shows.
Predict(frame) ==
    [i \in 1..Len(frame) |->
        [class_name |-> frame[i].class_name, bbox |-> frame[i].x]]

\* DetectionRun without the placeholder test: predict is called on the
\* placeholder string and raises.
DetectionRunPredictsOnPlaceholder(self, frame, frame_index, load, predict) ==
    IF frame_index % self.frame_skip # 0
    THEN [self |-> self, out |-> <<>>, touched |-> FALSE, predicted |-> FALSE,
          raised |-> FALSE]
    ELSE LET loaded == LoadModel(self, load) IN
         IF loaded.model # "RTDETR" \/ predict = "raise"
         THEN [self |-> loaded, out |-> <<>>, touched |-> TRUE,
               predicted |-> TRUE, raised |-> TRUE]
         ELSE [self |-> loaded, out |-> Predict(frame), touched |-> TRUE,
               predicted |-> TRUE, raised |-> FALSE]

\* DetectionStage.run: the detections of a frame, the stage after the call,
\* whether the model was looked at and whether the call raised. predict is
\* called on whatever _load_model returned unless it is the placeholder, and
\* raises on anything that is no model.
DetectionRun(self, frame, frame_index, load, predict) ==
    IF frame_index % self.frame_skip # 0
    THEN [self |-> self, out |-> <<>>, touched |-> FALSE, predicted |-> FALSE,
          raised |-> FALSE]
    ELSE LET loaded == LoadModel(self, load) IN
         IF loaded.model = "placeholder"
         THEN [self |-> loaded, out |-> <<>>, touched |-> TRUE,
               predicted |-> FALSE, raised |-> FALSE]
         ELSE IF loaded.model # "RTDETR" \/ predict = "raise"
         THEN [self |-> loaded, out |-> <<>>, touched |-> TRUE,
               predicted |-> TRUE, raised |-> TRUE]
         ELSE [self |-> loaded, out |-> Predict(frame), touched |-> TRUE,
               predicted |-> TRUE, raised |-> FALSE]

(* --------------------------- TrackingStage ----------------------------- *)

\* A tracker with no track; ids are handed out from 1.
TrackerInit == [next_id |-> 1, tracks |-> <<>>]

\* The detection a track is associated with: the nearest unused detection of
\* its class, the first of them on a tie; 0 when there is none.
BestMatch(t, dets, used) ==
    LET cand == {i \in (1..Len(dets)) \ used : dets[i].class_name = t.class_name}
        d(i) == Abs(dets[i].bbox - t.bbox)
    IN  IF cand = {} THEN 0
        ELSE CHOOSE i \in cand :
                \A j \in cand : d(i) < d(j) \/ (d(i) = d(j) /\ i <= j)

\* Greedy association, tracks in id order: the matched detection of each.
RECURSIVE Assign(_, _, _)
Assign(tracks, dets, used) ==
    IF tracks = <<>> THEN <<>>
    ELSE LET m == BestMatch(Head(tracks), dets, used)
         IN  <<m>> \o Assign(Tail(tracks), dets, used \cup {m})

\* PushTrail without the eviction: the trail grows with the trajectory.
PushTrailUnbounded(trail, p) == Append(trail, p)

\* A position enters the trail; the oldest leaves once TRAIL_LEN are held.
PushTrail(trail, p) ==
    LET t == Append(trail, p)
    IN  IF Len(t) > TRAIL_LEN THEN Tail(t) ELSE t

\* TrackerUpdate without the association: every detection starts a track.
TrackerUpdateAllNew(self, dets) ==
    LET old  == self.tracks
        aged == [i \in 1..Len(old) |-> [old[i] EXCEPT !.missed = @ + 1]]
        kept == SelectSeq(aged, LAMBDA t : t.missed <= PATIENCE)
        born == [k \in 1..Len(dets) |->
                   [object_id  |-> self.next_id + k - 1,
                    class_name |-> dets[k].class_name,
                    bbox       |-> dets[k].bbox,
                    missed     |-> 0,
                    trail      |-> PushTrail(<<>>, dets[k].bbox),
                    trajectory |-> <<dets[k].bbox>>]]
    IN  [self |-> [next_id |-> self.next_id + Len(dets), tracks |-> kept \o born],
         out  |-> kept \o born]

\* TrackerUpdate numbering a new track by its place among the tracks held.
TrackerUpdateReusesIds(self, dets) ==
    LET old     == self.tracks
        match   == Assign(old, dets, {})
        moved   == [i \in 1..Len(old) |->
                      IF match[i] # 0
                      THEN [old[i] EXCEPT !.bbox = dets[match[i]].bbox, !.missed = 0,
                              !.trail = PushTrail(@, dets[match[i]].bbox),
                              !.trajectory = Append(@, dets[match[i]].bbox)]
                      ELSE [old[i] EXCEPT !.missed = @ + 1]]
        kept    == SelectSeq(moved, LAMBDA t : t.missed <= PATIENCE)
        matched == {match[i] : i \in 1..Len(old)}
        fresh   == SelectSeq([i \in 1..Len(dets) |-> i], LAMBDA i : i \notin matched)
        born    == [k \in 1..Len(fresh) |->
                      [object_id  |-> Len(kept) + k,
                       class_name |-> dets[fresh[k]].class_name,
                       bbox       |-> dets[fresh[k]].bbox,
                       missed     |-> 0,
                       trail      |-> PushTrail(<<>>, dets[fresh[k]].bbox),
                       trajectory |-> <<dets[fresh[k]].bbox>>]]
    IN  [self |-> [next_id |-> self.next_id + Len(fresh), tracks |-> kept \o born],
         out  |-> kept \o born]

\* TrackingStage.run(detections, frame, frame_index): matched tracks move to
\* their detection, unmatched ones age and are dropped past PATIENCE, and
\* every unmatched detection starts a track with the next id.  trajectory is
\* the history of a track's positions, of which trail is the bounded window.
TrackerUpdate(self, dets) ==
    LET old     == self.tracks
        match   == Assign(old, dets, {})
        moved   == [i \in 1..Len(old) |->
                      IF match[i] # 0
                      THEN [old[i] EXCEPT !.bbox = dets[match[i]].bbox, !.missed = 0,
                              !.trail = PushTrail(@, dets[match[i]].bbox),
                              !.trajectory = Append(@, dets[match[i]].bbox)]
                      ELSE [old[i] EXCEPT !.missed = @ + 1]]
        kept    == SelectSeq(moved, LAMBDA t : t.missed <= PATIENCE)
        matched == {match[i] : i \in 1..Len(old)}
        fresh   == SelectSeq([i \in 1..Len(dets) |-> i], LAMBDA i : i \notin matched)
        born    == [k \in 1..Len(fresh) |->
                      [object_id  |-> self.next_id + k - 1,
                       class_name |-> dets[fresh[k]].class_name,
                       bbox       |-> dets[fresh[k]].bbox,
                       missed     |-> 0,
                       trail      |-> PushTrail(<<>>, dets[fresh[k]].bbox),
                       trajectory |-> <<dets[fresh[k]].bbox>>]]
    IN  [self |-> [next_id |-> self.next_id + Len(fresh), tracks |-> kept \o born],
         out  |-> kept \o born]

(* ---------------------------- SpatialStage ----------------------------- *)

\* Nothing seen yet: prev maps the ids of the last call to their position and
\* zone membership.
SpatialInit == [prev |-> <<>>]

\* Pixel to real-world position.
PxToM(x) == x * M_PER_PX

InZone(x_m) == x_m >= ZONE_FROM_M

Sign(n) == IF n > 0 THEN 1 ELSE IF n < 0 THEN -1 ELSE 0

\* A track with its real-world position, its velocity (zero with one sample),
\* its zone and the frame's timestamp.
Enrich(self, t, timestamp) ==
    LET x_m == PxToM(t.bbox) IN
    [object_id  |-> t.object_id,
     class_name |-> t.class_name,
     bbox       |-> t.bbox,
     x_m        |-> x_m,
     vx_mps     |-> IF t.object_id \in DOMAIN self.prev
                    THEN x_m - self.prev[t.object_id].x_m ELSE 0,
     in_zone    |-> IF InZone(x_m) THEN ZoneName ELSE "",
     timestamp  |-> timestamp]

\* zone_entry on the transition from outside to inside.
ZoneEvents(self, ts, frame_index, timestamp) ==
    LET entered(t) == /\ t.in_zone # ""
                      /\ \/ t.object_id \notin DOMAIN self.prev
                         \/ self.prev[t.object_id].in_zone = ""
        ev(t) == [type |-> "zone_entry", zone |-> t.in_zone, frame |-> frame_index,
                  timestamp |-> timestamp, ids |-> <<t.object_id>>]
        in == SelectSeq(ts, entered)
    IN  [i \in 1..Len(in) |-> ev(in[i])]

\* The event of one pair of tracks, if any: critical, warning, or a
\* time-to-collision warning while the separation is still safe.
PairEvent(a, b, frame_index, timestamp) ==
    LET dist    == Abs(a.x_m - b.x_m)
        closing == (a.vx_mps - b.vx_mps) * Sign(b.x_m - a.x_m)
        base    == [frame |-> frame_index, timestamp |-> timestamp,
                    ids |-> <<a.object_id, b.object_id>>]
    IN  IF dist <= CRIT_DIST_M
        THEN << [type |-> "proximity_alert", severity |-> "critical"] @@ base >>
        ELSE IF dist <= WARN_DIST_M
        THEN << [type |-> "proximity_alert", severity |-> "warning"] @@ base >>
        ELSE IF closing > 0 /\ dist <= closing * TTC_HORIZON
        THEN << [type |-> "ttc_warning"] @@ base >>
        ELSE <<>>

\* The events of the pairs (i, j), i < j, in ascending order, from pair (i, j) on.
RECURSIVE PairEvents(_, _, _, _, _)
PairEvents(ts, i, j, frame_index, timestamp) ==
    IF i >= Len(ts) THEN <<>>
    ELSE IF j > Len(ts) THEN PairEvents(ts, i + 1, i + 2, frame_index, timestamp)
    ELSE PairEvent(ts[i], ts[j], frame_index, timestamp)
         \o PairEvents(ts, i, j + 1, frame_index, timestamp)

\* SpatialStage.run(tracks, frame_index, timestamp_sec).
SpatialRun(self, tracks, frame_index, timestamp) ==
    LET ts == [i \in 1..Len(tracks) |-> Enrich(self, tracks[i], timestamp)]
        ids == {ts[i].object_id : i \in 1..Len(ts)}
        of(id) == CHOOSE t \in Range(ts) : t.object_id = id
    IN  [self   |-> [prev |-> [id \in ids |->
                        [x_m |-> of(id).x_m, in_zone |-> of(id).in_zone]]],
         tracks |-> ts,
         events |-> ZoneEvents(self, ts, frame_index, timestamp)
                    \o PairEvents(ts, 1, 2, frame_index, timestamp)]

(* ------------------------------ VLMStage ------------------------------- *)

\* What the classifier says of the crop of the frame at a track's box.
Classify(frame, t, attr) ==
    LET seen == {i \in 1..Len(frame) :
                    frame[i].class_name = "person" /\ frame[i].x = t.bbox}
    IN  IF seen = {} THEN "NO" ELSE frame[CHOOSE i \in seen : TRUE][attr]

\* Observe reporting an attribute it could not check as absent.
ObserveAbsentWhenUnchecked(available, frame, t, attr) ==
    IF available THEN Classify(frame, t, attr) ELSE "NO"

\* The value of an attribute of a person track: the classifier's answer, or
\* "unknown" when the classifier is not available.
Observe(available, frame, t, attr) ==
    IF available THEN Classify(frame, t, attr) ELSE "unknown"

\* VLMStage.run(spatial_tracks, frame, frame_index, spatial_events): every
\* person track is classified and yields one observation.
VLMRun(available, tracks, frame, frame_index) ==
    LET cls(t) == IF t.class_name = "person"
                  THEN [hardhat |-> Observe(available, frame, t, "hardhat"),
                        vest |-> Observe(available, frame, t, "vest")] @@ t
                  ELSE t
        out == [i \in 1..Len(tracks) |-> cls(tracks[i])]
        people == SelectSeq(out, LAMBDA t : t.class_name = "person")
    IN  [tracks |-> out,
         events |-> [i \in 1..Len(people) |->
                        [type |-> "ppe_observation", frame |-> frame_index,
                         timestamp |-> people[i].timestamp,
                         ids |-> <<people[i].object_id>>,
                         hardhat |-> people[i].hardhat, vest |-> people[i].vest]]]

(* ------------------------------ writers -------------------------------- *)

\* EventsWriter: add() buffers an event, flush() writes the buffer out.
EventsWriterInit == [created |-> FALSE, events |-> <<>>, flushed |-> 0]

EventsAdd(w, e) == [w EXCEPT !.events = Append(@, e)]

\* CSVLogger: write_row() appends a row.
CSVLoggerInit == [created |-> FALSE, rows |-> <<>>, closed |-> 0]

CSVWriteRow(w, row) == [w EXCEPT !.rows = Append(@, row)]

\* VideoWriter: write_frame() renders one frame with its tracks and events.
VideoWriterInit == [created |-> FALSE, frames |-> <<>>, closed |-> 0]

VideoWriteFrame(w, frame_index, tracks, events) ==
    [w EXCEPT !.frames = Append(@, [frame |-> frame_index,
                                    ids |-> [i \in 1..Len(tracks) |-> tracks[i].object_id],
                                    events |-> events])]

\* SummaryWriter: set_stats() keeps the counters, flush() writes them.
SummaryWriterInit == [created |-> FALSE, total_frames |-> -1, stats |-> <<>>, flushed |-> 0]

(* ---------------------------- orchestrator ----------------------------- *)

VARIABLES
    pc,               \* where run() stands
    FRAME_SKIP,       \* config.FRAME_SKIP
    failure,          \* what raised out of run(), "" while nothing has
    fps, frame_index, frame, timestamp_sec,
    detection, tracking, spatial,
    events_writer, csv_logger, video_writer, summary_writer,
    stats, last_detections, last_tracks,
    detections, tracks, spatial_tracks, spatial_events, vlm_tracks, ppe_events,
    frames_read,      \* history: the cap.read() calls that returned a frame
    detect_calls,     \* history: the DetectionStage.run calls
    track_calls,      \* history: the TrackingStage.run calls
    emitted,          \* history: the events the stages returned, in order
    active,           \* history: the tracks of each frame, after stage 2
    input_ok,         \* history: what the loading of each input found
    classifier_ok,    \* environment: the PPE classifier is available
    video,            \* history: the frames cap.read() returned, if recorded
    first,            \* replay: the input and the output of the run before
    \* SafetyAgent.process
    video_result,     \* its argument
    safety_pc,        \* where process() stands
    violations, ppe_compliance, zone_adherence, overall_risk, summary,
    raw_response,     \* history: what the LLM call gave, "None" before it
    report,           \* what process() returned, "None" while it has not
    \* _db_query
    client,           \* supabase_client._client
    db_pc,            \* where _db_query stands
    invocations,      \* history: what each call of fn gave, in this query
    resets,           \* history: the reset_supabase() calls of this query
    db_log,           \* history: how each finished query ended
    \* the video job
    job_status,       \* VIDEO_JOBS[job_id].status
    task_pc,          \* where the background _process_video stands
    cb_pc,            \* where the complete_job handler stands
    callbacks,        \* history: the complete_job requests received
    broadcasts,       \* history: the stages broadcast on the site's channel
    status_log,       \* history: the values job.status has taken, in order
    attempts          \* history: the calls _process_video awaited, and how they ended

vars == << pc, FRAME_SKIP, failure, fps, frame_index, frame, timestamp_sec,
           detection, tracking, spatial,
           events_writer, csv_logger, video_writer, summary_writer,
           stats, last_detections, last_tracks,
           detections, tracks, spatial_tracks, spatial_events, vlm_tracks, ppe_events,
           frames_read, detect_calls, track_calls, emitted, active, input_ok,
           classifier_ok, video, first,
           video_result, safety_pc, violations, ppe_compliance, zone_adherence,
           overall_risk, summary, raw_response, report,
           client, db_pc, invocations, resets, db_log,
           job_status, task_pc, cb_pc, callbacks, broadcasts, status_log,
           attempts >>

replay == << video, first >>

\* The variables of the application's components.
safety == << video_result, safety_pc, violations, ppe_compliance,
             zone_adherence, overall_risk, summary, raw_response, report >>
dbq    == << client, db_pc, invocations, resets, db_log >>
job    == << job_status, task_pc, cb_pc, callbacks, broadcasts, status_log,
             attempts >>

\* What no step of run() changes.
fixed == << FRAME_SKIP, classifier_ok, safety, dbq, job >>

io     == << events_writer, csv_logger, video_writer, summary_writer >>
stages == << detection, tracking, spatial >>
locals == << detections, tracks, spatial_tracks, spatial_events, vlm_tracks, ppe_events >>
cache  == << last_detections, last_tracks >>
hist   == << frames_read, detect_calls, track_calls, emitted, active, input_ok >>
clock  == << fps, frame_index, frame, timestamp_sec >>

(* ------------------------- app: safety agent --------------------------- *)

\* The most zones of a video result.
MaxZones == 1

\* models.video.WorkerDetection with its defaults, the fields the rules read.
WorkerDetection ==
    [worker_id |-> "w0",
     ppe |-> [hard_hat |-> FALSE, fall_harness |-> FALSE,
              harness_tied_off |-> FALSE],
     elevation_ft |-> 0, near_edge |-> FALSE, under_suspended_load |-> FALSE,
     on_ladder |-> FALSE, three_point_contact |-> "None",
     in_crane_swing_radius |-> FALSE]

Compliant ==
    [WorkerDetection EXCEPT !.worker_id = "w1", !.ppe.hard_hat = TRUE]
Bareheaded ==
    [WorkerDetection EXCEPT !.worker_id = "w2", !.on_ladder = TRUE,
                            !.three_point_contact = "True"]
UnderCrane ==
    [WorkerDetection EXCEPT !.worker_id = "w3", !.under_suspended_load = TRUE,
                            !.in_crane_swing_radius = TRUE]
AtTheEdge ==
    [WorkerDetection EXCEPT !.worker_id = "w4", !.ppe.hard_hat = TRUE,
                            !.elevation_ft = 12, !.near_edge = TRUE]
Climber ==
    [WorkerDetection EXCEPT !.worker_id = "w5", !.ppe.hard_hat = TRUE,
                            !.ppe.fall_harness = TRUE, !.elevation_ft = 12,
                            !.on_ladder = TRUE, !.three_point_contact = "False"]

\* The workers seen in a zone.
Crews ==
    { <<>>, << Compliant >>, << Bareheaded >>, << UnderCrane, AtTheEdge >>,
      << Climber, Compliant >> }

\* The rest of models.video.ZoneAnalysis: equipment, hazards, egress paths,
\* material stacks, trades and area (<<>> where it is None).
Layout(equipment, hazards, egress, material_stacks, trades_present, area_sqft) ==
    [equipment |-> equipment, hazards |-> hazards, egress |-> egress,
     material_stacks |-> material_stacks, trades_present |-> trades_present,
     area_sqft |-> area_sqft]

OneTrade    == << "electrical" >>
ThreeTrades == << "electrical", "plumbing", "framing" >>

Layouts ==
    { Layout(<<>>, <<>>, <<>>, <<>>, OneTrade, <<>>),
      Layout(<< [type |-> "crane", signal_person_line_of_sight |-> FALSE],
                [type |-> "forklift", signal_person_line_of_sight |-> FALSE] >>,
             <<>>, <<>>, <<>>, OneTrade, << 400 >>),
      Layout(<< [type |-> "crane", signal_person_line_of_sight |-> TRUE] >>,
             << [type |-> "hot_work", fire_watch_present |-> FALSE,
                 loto_signage_visible |-> FALSE] >>,
             <<>>, <<>>, ThreeTrades, << 600 >>),
      Layout(<<>>,
             << [type |-> "electrical_exposure", fire_watch_present |-> FALSE,
                 loto_signage_visible |-> FALSE],
                [type |-> "hot_work", fire_watch_present |-> TRUE,
                 loto_signage_visible |-> FALSE] >>,
             <<>>, <<>>, ThreeTrades, <<>>),
      Layout(<<>>, <<>>,
             << [blocked |-> TRUE, emergency_access |-> TRUE],
                [blocked |-> FALSE, emergency_access |-> TRUE] >>,
             <<>>, OneTrade, <<>>),
      Layout(<<>>, <<>>,
             << [blocked |-> TRUE, emergency_access |-> FALSE] >>,
             << [height_ft |-> 8, cross_braced |-> FALSE],
                [height_ft |-> 8, cross_braced |-> TRUE],
                [height_ft |-> 4, cross_braced |-> FALSE] >>,
             OneTrade, <<>>),
      Layout(<<>>, <<>>, <<>>, <<>>, ThreeTrades, << 400 >>) }

\* The zone with this id: its name is its id.
Zone(id, workers, layout) ==
    [zone_id |-> id, zone_name |-> id, workers |-> workers,
     equipment |-> layout.equipment, hazards |-> layout.hazards,
     egress |-> layout.egress, material_stacks |-> layout.material_stacks,
     trades_present |-> layout.trades_present, area_sqft |-> layout.area_sqft]

\* models.video.TradeProximity records; the last one names no zone of the
\* result.
Proximities ==
    { <<>>,
      << [zone_id |-> 1, separation_ft |-> 6, overhead_work_above_crew |-> TRUE],
         [zone_id |-> 1, separation_ft |-> 12, overhead_work_above_crew |-> TRUE],
         [zone_id |-> 0, separation_ft |-> 6, overhead_work_above_crew |-> FALSE] >>,
      << [zone_id |-> 0, separation_ft |-> 4, overhead_work_above_crew |-> TRUE] >> }

\* models.video.VideoProcessingResult, the fields the safety agent reads.
VideoResults ==
    UNION { { [zones |-> [i \in 1..n |->
                              Zone(i, pick[i].workers, pick[i].layout)],
               trade_proximities |-> tp] :
              pick \in [1..n -> [workers : Crews, layout : Layouts]],
              tp \in Proximities } :
            n \in 0..MaxZones }

NoVideoResult == [zones |-> <<>>, trade_proximities |-> <<>>]

SafetyViolation(zone, type, description, severity, workers_affected) ==
    [zone |-> zone, type |-> type, description |-> description,
     severity |-> severity, workers_affected |-> workers_affected]

\* The per-worker rules, in the order the code appends their violations.
check_worker_rules(worker, zone) ==
    LET zone_name == zone.zone_name
        harness == worker.ppe.fall_harness
    IN  (IF ~worker.ppe.hard_hat
         THEN << SafetyViolation(zone_name, "ppe_missing",
                                 IF worker.in_crane_swing_radius
                                 THEN "1926.100 + 1926.1400" ELSE "1926.100",
                                 IF worker.in_crane_swing_radius
                                 THEN "high" ELSE "medium",
                                 1) >>
         ELSE <<>>)
        \o (IF worker.elevation_ft > 6 /\ ~harness
            THEN << SafetyViolation(zone_name, "zone_breach", "1926.501", "high", 1) >>
            ELSE <<>>)
        \o (IF worker.near_edge /\ ~harness
            THEN << SafetyViolation(zone_name, "zone_breach", "1926.501(b)(1)", "high", 1) >>
            ELSE <<>>)
        \o (IF worker.elevation_ft > 6 /\ harness /\ ~worker.ppe.harness_tied_off
            THEN << SafetyViolation(zone_name, "zone_breach", "1926.502(d)", "high", 1) >>
            ELSE <<>>)
        \o (IF worker.under_suspended_load
            THEN << SafetyViolation(zone_name, "clearance_issue", "1926.1431", "high", 1) >>
            ELSE <<>>)
        \o (IF worker.on_ladder /\ worker.three_point_contact = "False"
            THEN << SafetyViolation(zone_name, "zone_breach", "1926.1053(b)(1)", "medium", 1) >>
            ELSE <<>>)

\* The per-zone rules: equipment, hazards, egress, stacking, congestion.
check_zone_rules(zone) ==
    LET zone_name == zone.zone_name
        n == Len(zone.workers)
        Equipment[i \in 0..Len(zone.equipment)] ==
            IF i = 0 THEN <<>>
            ELSE LET eq == zone.equipment[i]
                 IN  Equipment[i - 1]
                     \o (IF eq.type = "crane" /\ ~eq.signal_person_line_of_sight
                         THEN << SafetyViolation(zone_name, "clearance_issue",
                                                 "1926.1419", "high", 1) >>
                         ELSE <<>>)
        Hazards[i \in 0..Len(zone.hazards)] ==
            IF i = 0 THEN <<>>
            ELSE LET hz == zone.hazards[i]
                 IN  Hazards[i - 1]
                     \o (IF hz.type = "hot_work" /\ ~hz.fire_watch_present
                         THEN << SafetyViolation(zone_name, "clearance_issue",
                                                 "1926.352(e)", "high", n) >>
                         ELSE <<>>)
                     \o (IF hz.type = "electrical_exposure" /\ ~hz.loto_signage_visible
                         THEN << SafetyViolation(zone_name, "clearance_issue",
                                                 "1926.417", "high", n) >>
                         ELSE <<>>)
        Egress[i \in 0..Len(zone.egress)] ==
            IF i = 0 THEN <<>>
            ELSE LET eg == zone.egress[i]
                 IN  Egress[i - 1]
                     \o (IF eg.blocked
                         THEN << SafetyViolation(zone_name, "blocked_corridor",
                                                 "1926.34",
                                                 IF eg.emergency_access
                                                 THEN "high" ELSE "medium",
                                                 n) >>
                         ELSE <<>>)
        Stacks[i \in 0..Len(zone.material_stacks)] ==
            IF i = 0 THEN <<>>
            ELSE LET ms == zone.material_stacks[i]
                 IN  Stacks[i - 1]
                     \o (IF ms.height_ft > 6 /\ ~ms.cross_braced
                         THEN << SafetyViolation(zone_name, "clearance_issue",
                                                 "1926.250(a)(1)", "medium", n) >>
                         ELSE <<>>)
    IN  Equipment[Len(zone.equipment)] \o Hazards[Len(zone.hazards)]
        \o Egress[Len(zone.egress)] \o Stacks[Len(zone.material_stacks)]
        \o (IF Len(zone.trades_present) > 2 /\ zone.area_sqft # <<>>
               /\ zone.area_sqft[1] < 500
            THEN << SafetyViolation(zone_name, "zone_breach", "multi-employer",
                                    "high", n) >>
            ELSE <<>>)

\* Overhead work close above another crew; the zone is named by the result's
\* zone of that id, by the id where there is none.
check_trade_proximity_rules(result) ==
    LET zone_lookup(id) ==
            IF \E k \in 1..Len(result.zones) : result.zones[k].zone_id = id
            THEN LET k == CHOOSE k \in 1..Len(result.zones) :
                              /\ result.zones[k].zone_id = id
                              /\ \A j \in (k + 1)..Len(result.zones) :
                                     result.zones[j].zone_id # id
                 IN  result.zones[k].zone_name
            ELSE id
        Prox[i \in 0..Len(result.trade_proximities)] ==
            IF i = 0 THEN <<>>
            ELSE LET tp == result.trade_proximities[i]
                 IN  Prox[i - 1]
                     \o (IF tp.overhead_work_above_crew /\ tp.separation_ft < 10
                         THEN << SafetyViolation(zone_lookup(tp.zone_id),
                                                 "clearance_issue", "1926.759",
                                                 "high", 2) >>
                         ELSE <<>>)
    IN  Prox[Len(result.trade_proximities)]

\* Phase 1: every worker of every zone, then the zone, then the proximities.
run_deterministic_checks(result) ==
    LET PerZone(zone) ==
            LET W[i \in 0..Len(zone.workers)] ==
                    IF i = 0 THEN <<>>
                    ELSE W[i - 1] \o check_worker_rules(zone.workers[i], zone)
            IN  W[Len(zone.workers)] \o check_zone_rules(zone)
        Z[i \in 0..Len(result.zones)] ==
            IF i = 0 THEN <<>> ELSE Z[i - 1] \o PerZone(result.zones[i])
    IN  Z[Len(result.zones)] \o check_trade_proximity_rules(result)

\* The two dicts of the report, keyed by zone name.
compute_compliance(result, found) ==
    LET names == { result.zones[k].zone_name : k \in 1..Len(result.zones) }
        violation_zones == { found[i].zone : i \in 1..Len(found) }
        ppe_violation_zones ==
            { found[i].zone : i \in { j \in 1..Len(found) :
                                          found[j].type = "ppe_missing" } }
    IN  [ppe_compliance |-> [z \in names |-> z \notin ppe_violation_zones],
         zone_adherence |-> [z \in names |-> z \notin violation_zones]]

\* The risk level from the number and the severities of the violations.
compute_overall_risk(found) ==
    LET high_violations == { i \in 1..Len(found) : found[i].severity = "high" }
        Workers[i \in 0..Len(found)] ==
            IF i = 0 THEN 0
            ELSE Workers[i - 1] + (IF i \in high_violations
                                   THEN found[i].workers_affected ELSE 0)
        high_workers == Workers[Len(found)]
    IN  IF found = <<>> THEN "low"
        ELSE IF (high_workers >= 3 /\ high_violations # {}) \/ Len(found) >= 5
             THEN "critical"
        ELSE IF high_violations # {} THEN "high"
        ELSE IF \E i \in 1..Len(found) : found[i].severity = "medium" THEN "medium"
        ELSE "low"

\* What llm.chat can return: a JSON object whose "summary" is a string, is
\* null or is missing, JSON that is no object, or text that is no JSON; each
\* bare or inside a Markdown code fence.
Bodies ==
    { [json |-> "object", summary |-> "str"],
      [json |-> "object", summary |-> "null"],
      [json |-> "object", summary |-> "absent"],
      [json |-> "array", summary |-> "absent"],
      [json |-> "invalid", summary |-> "absent"] }

Responses == [fenced : BOOLEAN, body : Bodies]

BodyText(body) ==
    CASE body.json = "invalid" -> "Three workers are at risk."
      [] body.json = "array" -> "[]"
      [] body.summary = "str" -> "{summary: Fix the egress first.}"
      [] body.summary = "null" -> "{summary: null}"
      [] OTHER -> "{}"

\* The text of a response, without surrounding white space; [fence] stands
\* for the three backquotes of a Markdown code fence.
RawText(raw) ==
    IF raw.fenced THEN "[fence]json " \o BodyText(raw.body) \o " [fence]"
    ELSE BodyText(raw.body)

\* A Python value: its type and, for a str, its text.
Str(text) == [type |-> "str", text |-> text]
PyNone == [type |-> "NoneType", text |-> ""]

\* _parse_summary_response: the fence lines are dropped; a JSON object gives
\* its "summary" ("" without one), other JSON has no get() and raises, text
\* that is no JSON gives the raw text.
parse_summary_response(raw) ==
    LET cleaned == raw.body
    IN  CASE cleaned.json = "invalid" -> [raised |-> FALSE, value |-> Str(RawText(raw))]
          [] cleaned.json = "array" -> [raised |-> TRUE, value |-> PyNone]
          [] cleaned.summary = "str" ->
                 [raised |-> FALSE, value |-> Str("Fix the egress first.")]
          [] cleaned.summary = "null" -> [raised |-> FALSE, value |-> PyNone]
          [] OTHER -> [raised |-> FALSE, value |-> Str("")]

\* The summary process() writes itself when phase 2 raised.
AutoSummary(found, risk) ==
    Str("[Auto-generated] " \o ToString(Len(found))
        \o " safety violations detected. Overall risk: " \o risk
        \o ". See violations list for details.")

\* Before llm.chat is awaited, and before process() returns.
NoResponse ==
    [call |-> "None",
     raw |-> [fenced |-> FALSE, body |-> [json |-> "None", summary |-> "absent"]]]

NoReport ==
    [violations |-> <<>>, ppe_compliance |-> <<>>, zone_adherence |-> <<>>,
     overall_risk |-> "", summary |-> ""]

\* No SafetyAgent.process call is in progress.
SafetyIdle ==
    /\ video_result = NoVideoResult
    /\ safety_pc = "idle"
    /\ violations = <<>>
    /\ ppe_compliance = <<>> /\ zone_adherence = <<>>
    /\ overall_risk = "low"
    /\ summary = Str("")
    /\ raw_response = NoResponse
    /\ report = NoReport

(* ---------------------- app: database exceptions ---------------------- *)

\* The most queries made one after the other.
MaxQueries == 2

\* What a call of fn can give: a value, or an exception, which is the method
\* resolution order of its class.
Returned == << "value" >>

Exceptions ==
    { << "ReadError", "TransportError", "RequestError", "HTTPError", "Exception",
         "BaseException", "object" >>,
      << "StaleConnection", "ReadError", "NetworkError", "Exception",
         "BaseException", "object" >>,
      << "APIError", "Exception", "BaseException", "object" >>,
      << "CancelledError", "BaseException", "object" >> }

Outcomes == { Returned } \cup Exceptions

IsRaise(outcome) == outcome # Returned

\* "except Exception" catches it.
IsException(exc) == \E i \in 1..Len(exc) : exc[i] = "Exception"

\* IsReadError taking every exception for a read error.
IsReadErrorAlways(exc) == TRUE

\* The class is called ReadError or has a base called ReadError.
IsReadError(exc) ==
    exc[1] = "ReadError" \/ \E i \in 1..Len(exc) : exc[i] = "ReadError"

\* No query is in progress and none has been made.
DbIdle ==
    /\ client = "None"
    /\ db_pc = "idle"
    /\ invocations = <<>>
    /\ resets = 0
    /\ db_log = <<>>

(* ------------------------ app: idle components ------------------------ *)

\* The most complete_job requests for the job.
MaxCallbacks == 2

\* The job is not created.
JobIdle ==
    /\ job_status = "None"
    /\ task_pc = "idle" /\ cb_pc = "idle"
    /\ callbacks = 0
    /\ broadcasts = <<>>
    /\ status_log = <<>>
    /\ attempts = <<>>

\* None of the application's components is in use.
AppIdle == SafetyIdle /\ DbIdle /\ JobIdle

\* stats as run() sets it up (pipeline.py 56-65); zone_violations is a dict.
StatsInit ==
    [proximity_warnings |-> 0, proximity_critical |-> 0, ttc_warnings |-> 0,
     hardhat_yes |-> 0, hardhat_total |-> 0, vest_yes |-> 0, vest_total |-> 0,
     zone_violations |-> <<>>]

\* TallySpatial with the else branch of the severity test lost.
TallySpatialWarningsOnly(st, e) ==
    IF Get(e, "type", "") = "proximity_alert"
    THEN IF Get(e, "severity", "") = "warning"
         THEN [st EXCEPT !.proximity_warnings = @ + 1]
         ELSE st
    ELSE IF Get(e, "type", "") = "ttc_warning"
    THEN [st EXCEPT !.ttc_warnings = @ + 1]
    ELSE IF Get(e, "type", "") = "zone_entry"
    THEN LET zn == Get(e, "zone", "unknown") IN
         [st EXCEPT !.zone_violations =
            IF zn \in DOMAIN @ THEN [@ EXCEPT ![zn] = @ + 1] ELSE (zn :> 1) @@ @]
    ELSE st

\* TallySpatial that marks a zone as violated instead of counting its entries.
TallySpatialZoneSeenOnly(st, e) ==
    IF Get(e, "type", "") = "proximity_alert"
    THEN IF Get(e, "severity", "") = "warning"
         THEN [st EXCEPT !.proximity_warnings = @ + 1]
         ELSE [st EXCEPT !.proximity_critical = @ + 1]
    ELSE IF Get(e, "type", "") = "ttc_warning"
    THEN [st EXCEPT !.ttc_warnings = @ + 1]
    ELSE IF Get(e, "type", "") = "zone_entry"
    THEN LET zn == Get(e, "zone", "unknown") IN
         [st EXCEPT !.zone_violations = (zn :> 1) @@ @]
    ELSE st

\* The body of "for e in spatial_events" after events_writer.add(e).
TallySpatial(st, e) ==
    IF Get(e, "type", "") = "proximity_alert"
    THEN IF Get(e, "severity", "") = "warning"
         THEN [st EXCEPT !.proximity_warnings = @ + 1]
         ELSE [st EXCEPT !.proximity_critical = @ + 1]
    ELSE IF Get(e, "type", "") = "ttc_warning"
    THEN [st EXCEPT !.ttc_warnings = @ + 1]
    ELSE IF Get(e, "type", "") = "zone_entry"
    THEN LET zn == Get(e, "zone", "unknown") IN
         [st EXCEPT !.zone_violations =
            IF zn \in DOMAIN @ THEN [@ EXCEPT ![zn] = @ + 1] ELSE (zn :> 1) @@ @]
    ELSE st

\* TallyPPE taking every value but "NO" for compliant.
TallyPPEAllButNo(st, e) ==
    LET yes(k) == IF Get(e, k, "") # "NO" THEN 1 ELSE 0 IN
    [st EXCEPT !.hardhat_total = @ + 1, !.vest_total = @ + 1,
               !.hardhat_yes = @ + yes("hardhat"), !.vest_yes = @ + yes("vest")]

\* The body of "for e in ppe_events" after events_writer.add(e).
TallyPPE(st, e) ==
    LET yes(k) == IF Get(e, k, "") = "YES" THEN 1 ELSE 0 IN
    [st EXCEPT !.hardhat_total = @ + 1, !.vest_total = @ + 1,
               !.hardhat_yes = @ + yes("hardhat"), !.vest_yes = @ + yes("vest")]

\* stats after "for e in spatial_events".
RECURSIVE TallyAllSpatial(_, _)
TallyAllSpatial(st, events) ==
    IF events = <<>> THEN st
    ELSE TallyAllSpatial(TallySpatial(st, Head(events)), Tail(events))

\* stats after "for e in ppe_events".
RECURSIVE TallyAllPPE(_, _)
TallyAllPPE(st, events) ==
    IF events = <<>> THEN st
    ELSE TallyAllPPE(TallyPPE(st, Head(events)), Tail(events))

\* LogEvents adding every event twice.
RECURSIVE LogEventsTwice(_, _)
LogEventsTwice(w, events) ==
    IF events = <<>> THEN w
    ELSE LogEventsTwice(EventsAdd(EventsAdd(w, Head(events)), Head(events)),
                        Tail(events))

\* events_writer.add(e) for every e of a stage's events, in their order.
RECURSIVE LogEvents(_, _)
LogEvents(w, events) ==
    IF events = <<>> THEN w
    ELSE LogEvents(EventsAdd(w, Head(events)), Tail(events))

\* The row of one track (pipeline.py 115-131).
CsvRow(i, tr) ==
    [frame     |-> i,
     object_id |-> Get(tr, "object_id", ""),
     class     |-> Get(tr, "class_name", ""),
     x_px      |-> Get(tr, "bbox", 0),
     x_m       |-> Get(tr, "x_m", ""),
     vx_mps    |-> Get(tr, "vx_mps", ""),
     in_zone   |-> Get(tr, "in_zone", ""),
     hardhat   |-> Get(tr, "hardhat", "NA"),
     vest      |-> Get(tr, "vest", "NA")]

\* WriteRows leaving the loop after its first row.
WriteRowsFirstOnly(w, i, trs) ==
    IF trs = <<>> THEN w ELSE CSVWriteRow(w, CsvRow(i, Head(trs)))

\* "for tr in vlm_tracks: csv_logger.write_row(...)"
RECURSIVE WriteRows(_, _, _)
WriteRows(w, i, trs) ==
    IF trs = <<>> THEN w
    ELSE WriteRows(CSVWriteRow(w, CsvRow(i, Head(trs))), i, Tail(trs))

\* IsDetectionFrame with the skip test lost: the detector is called on every frame.
IsDetectionFrameAlways(i) == TRUE

\* frame_index % FRAME_SKIP == 0 (pipeline.py 77)
IsDetectionFrame(i) == i % FRAME_SKIP = 0

\* KeepLast that takes every result of the detector, the empty one too.
KeepLastAnyResult(last, dets) == dets

\* KeepLast that never replaces a result it holds.
KeepLastFirstOnly(last, dets) == IF last # <<>> THEN last ELSE dets

\* if detections: last_detections = detections (pipeline.py 79-80)
KeepLast(last, dets) == IF dets # <<>> THEN dets ELSE last

\* timestamp_sec = frame_index / fps, kept as the fraction.
Timestamp(i, f) == [num |-> i, den |-> f]

\* No run before this one, and none to follow: mode is "single" for one run of
\* run(), "record" for a run that is to be replayed, "replay" for its replay.
NoFirst == [mode |-> "single", video |-> <<>>, fps |-> 0, model |-> "None",
            log |-> <<>>, counters |-> StatsInit]

\* run() is entered; the stages and writers do not exist before Construct,
\* their variables hold unused values until then.
InitRun ==
    /\ pc = "load_calibration"
    /\ FRAME_SKIP \in 1..MaxFrameSkip
    /\ failure = ""
    /\ fps = 0 /\ frame_index = 0 /\ frame = <<>>
    /\ timestamp_sec = Timestamp(0, 1)
    /\ detection = DetectionInit(1)
    /\ tracking = TrackerInit
    /\ spatial = SpatialInit
    /\ events_writer = EventsWriterInit
    /\ csv_logger = CSVLoggerInit
    /\ video_writer = VideoWriterInit
    /\ summary_writer = SummaryWriterInit
    /\ stats = StatsInit
    /\ last_detections = <<>> /\ last_tracks = <<>>
    /\ detections = <<>> /\ tracks = <<>> /\ spatial_tracks = <<>>
    /\ spatial_events = <<>> /\ vlm_tracks = <<>> /\ ppe_events = <<>>
    /\ frames_read = 0 /\ detect_calls = <<>> /\ track_calls = <<>>
    /\ emitted = <<>> /\ active = <<>>
    /\ input_ok = [calibration |-> TRUE, zones |-> TRUE, video |-> TRUE]
    /\ video = <<>>

Init == InitRun /\ first = NoFirst /\ classifier_ok = TRUE /\ AppIdle

\* An exception leaves run(): nothing in run() catches it.
Raise(what) == pc' = "failed" /\ failure' = what

\* load_calibration(calibration_path) (pipeline.py 35)
LoadCalibration ==
    /\ pc = "load_calibration"
    /\ \E ok \in BOOLEAN :
          /\ input_ok' = [input_ok EXCEPT !.calibration = ok]
          /\ IF ok THEN pc' = "load_zones" /\ failure' = failure
                   ELSE Raise("calibration")
    /\ UNCHANGED << fixed, replay, clock, stages, io, stats, cache, locals,
                    frames_read, detect_calls, track_calls, emitted, active >>

\* load_zones(zones_path) (pipeline.py 36)
LoadZones ==
    /\ pc = "load_zones"
    /\ \E ok \in BOOLEAN :
          /\ input_ok' = [input_ok EXCEPT !.zones = ok]
          /\ IF ok THEN pc' = "open_video" /\ failure' = failure
                   ELSE Raise("zones")
    /\ UNCHANGED << fixed, replay, clock, stages, io, stats, cache, locals,
                    frames_read, detect_calls, track_calls, emitted, active >>

\* The isOpened test lost: an unopened capture goes on to the loop.
VideoUsableAlways(opened) == TRUE

\* if not cap.isOpened(): raise (pipeline.py 38-39)
VideoUsable(opened) == opened

\* cap = cv2.VideoCapture(...) (pipeline.py 37-39)
OpenVideo ==
    /\ pc = "open_video"
    /\ \E opened \in BOOLEAN :
          /\ input_ok' = [input_ok EXCEPT !.video = opened]
          /\ IF VideoUsable(opened) THEN pc' = "construct" /\ failure' = failure
                                    ELSE Raise("video")
    /\ UNCHANGED << fixed, replay, clock, stages, io, stats, cache, locals,
                    frames_read, detect_calls, track_calls, emitted, active >>

\* Construct that leaves the detections and tracks kept for the skipped frames
\* as it finds them.
ConstructKeepsLast ==
    /\ pc = "construct"
    /\ \E raw \in RawFpsValues : fps' = FpsOf(raw)
    /\ detection' = DetectionInit(FRAME_SKIP)
    /\ tracking' = TrackerInit
    /\ spatial' = SpatialInit
    /\ events_writer' = [EventsWriterInit EXCEPT !.created = TRUE]
    /\ csv_logger' = [CSVLoggerInit EXCEPT !.created = TRUE]
    /\ video_writer' = [VideoWriterInit EXCEPT !.created = TRUE]
    /\ summary_writer' = [SummaryWriterInit EXCEPT !.created = TRUE]
    /\ stats' = StatsInit
    /\ frame_index' = 0
    /\ pc' = "read"
    /\ UNCHANGED << fixed, replay, failure, frame, timestamp_sec, cache, locals,
                    hist >>

\* The stages, the writers and the loop's variables (pipeline.py 40-69).
Construct ==
    /\ pc = "construct"
    /\ \E raw \in RawFpsValues : fps' = FpsOf(raw)
    /\ detection' = DetectionInit(FRAME_SKIP)
    /\ tracking' = TrackerInit
    /\ spatial' = SpatialInit
    /\ events_writer' = [EventsWriterInit EXCEPT !.created = TRUE]
    /\ csv_logger' = [CSVLoggerInit EXCEPT !.created = TRUE]
    /\ video_writer' = [VideoWriterInit EXCEPT !.created = TRUE]
    /\ summary_writer' = [SummaryWriterInit EXCEPT !.created = TRUE]
    /\ stats' = StatsInit
    /\ frame_index' = 0
    /\ last_detections' = <<>> /\ last_tracks' = <<>>
    /\ pc' = "read"
    /\ UNCHANGED << fixed, replay, failure, frame, timestamp_sec, locals, hist >>

\* ret, frame = cap.read(); timestamp_sec = frame_index / fps (pipeline.py 72-75)
ReadFrame ==
    /\ pc = "read"
    /\ \E ret \in BOOLEAN :
          IF ret /\ frame_index < MaxFrames
          THEN /\ \E f \in Scenes : frame' = f
               /\ timestamp_sec' = Timestamp(frame_index, fps)
               /\ frames_read' = frames_read + 1
               /\ video' = IF first.mode = "single" THEN video
                           ELSE Append(video, frame')
               /\ pc' = "detect"
          ELSE /\ pc' = "flush_events"
               /\ UNCHANGED << frame, timestamp_sec, frames_read, video >>
    /\ UNCHANGED << fixed, first, failure, fps, frame_index, stages, io, stats, cache,
                    locals, detect_calls, track_calls, emitted, active, input_ok >>

\* The run is interrupted between two frames (KeyboardInterrupt at the head
\* of the loop): run() has no handler and no finally, the exception leaves it.
Abort ==
    /\ pc = "read"
    /\ Raise("abort")
    /\ UNCHANGED << fixed, replay, clock, stages, io, stats, cache, locals, hist >>

\* Stage 1 (pipeline.py 76-82): the detector on every FRAME_SKIP-th frame, the
\* last detections on the others.
Detect ==
    /\ pc = "detect"
    /\ IF IsDetectionFrame(frame_index)
       THEN \E load \in LoadOutcomes, predict \in PredictOutcomes :
               LET r == DetectionRun(detection, frame, frame_index, load, predict) IN
               /\ detection' = r.self
               /\ detect_calls' = Append(detect_calls,
                     [frame |-> frame_index, out |-> r.out, touched |-> r.touched,
                      predicted |-> r.predicted, raised |-> r.raised])
               /\ IF r.raised
                  THEN /\ Raise("detector")
                       /\ UNCHANGED << detections, last_detections >>
                  ELSE /\ detections' = r.out
                       /\ last_detections' = KeepLast(last_detections, r.out)
                       /\ pc' = "track" /\ failure' = failure
       ELSE /\ detections' = last_detections
            /\ pc' = "track"
            /\ UNCHANGED << failure, detection, detect_calls, last_detections >>
    /\ UNCHANGED << fixed, replay, clock, tracking, spatial, io, stats, last_tracks,
                    tracks, spatial_tracks, spatial_events, vlm_tracks, ppe_events,
                    frames_read, track_calls, emitted, active, input_ok >>

\* Stage 2 (pipeline.py 83-88): the tracker on the detections, if there are
\* any; the last tracks otherwise.
Track ==
    /\ pc = "track"
    /\ IF detections # <<>>
       THEN /\ track_calls' = Append(track_calls,
                                     [frame |-> frame_index, dets |-> detections])
            /\ \E raised \in BOOLEAN :
                  IF raised
                  THEN /\ Raise("tracker")
                       /\ UNCHANGED << tracking, tracks, last_tracks, active >>
                  ELSE LET r == TrackerUpdate(tracking, detections) IN
                       /\ tracking' = r.self
                       /\ tracks' = r.out
                       /\ last_tracks' = r.out
                       /\ active' = Append(active, r.out)
                       /\ pc' = "spatial" /\ failure' = failure
       ELSE /\ tracks' = last_tracks
            /\ active' = Append(active, last_tracks)
            /\ pc' = "spatial"
            /\ UNCHANGED << failure, tracking, last_tracks, track_calls >>
    /\ UNCHANGED << fixed, replay, clock, detection, spatial, io, stats, last_detections,
                    detections, spatial_tracks, spatial_events, vlm_tracks, ppe_events,
                    frames_read, detect_calls, emitted, input_ok >>

\* Whether a stage can raise on the tracks it is given: handed no track, the
\* spatial and VLM stages do nothing and do not raise.
StageRaises(input) == IF input = <<>> THEN {FALSE} ELSE BOOLEAN

\* Stage 3 (pipeline.py 89-102): the spatial events are logged and tallied.
Spatial ==
    /\ pc = "spatial"
    /\ \E raised \in StageRaises(tracks) :
          IF raised
          THEN /\ Raise("spatial")
               /\ UNCHANGED << spatial, spatial_tracks, spatial_events, events_writer,
                               stats, emitted >>
          ELSE LET r == SpatialRun(spatial, tracks, frame_index, timestamp_sec) IN
               /\ spatial' = r.self
               /\ spatial_tracks' = r.tracks
               /\ spatial_events' = r.events
               /\ emitted' = emitted \o r.events
               /\ events_writer' = LogEvents(events_writer, r.events)
               /\ stats' = TallyAllSpatial(stats, r.events)
               /\ pc' = "vlm" /\ failure' = failure
    /\ UNCHANGED << fixed, replay, clock, detection, tracking, csv_logger, video_writer,
                    summary_writer, cache, detections, tracks, vlm_tracks, ppe_events,
                    frames_read, detect_calls, track_calls, active, input_ok >>

\* Stage 4 (pipeline.py 103-112): the PPE events are logged and tallied.
VLM ==
    /\ pc = "vlm"
    /\ \E raised \in StageRaises(spatial_tracks) :
          IF raised
          THEN /\ Raise("vlm")
               /\ UNCHANGED << vlm_tracks, ppe_events, events_writer, stats, emitted >>
          ELSE LET r == VLMRun(classifier_ok, spatial_tracks, frame, frame_index) IN
               /\ vlm_tracks' = r.tracks
               /\ ppe_events' = r.events
               /\ emitted' = emitted \o r.events
               /\ events_writer' = LogEvents(events_writer, r.events)
               /\ stats' = TallyAllPPE(stats, r.events)
               /\ pc' = "csv" /\ failure' = failure
    /\ UNCHANGED << fixed, replay, clock, stages, csv_logger, video_writer,
                    summary_writer, cache, detections, tracks, spatial_tracks,
                    spatial_events, frames_read, detect_calls, track_calls, active,
                    input_ok >>

\* One row per track of the frame (pipeline.py 113-131).
WriteCSV ==
    /\ pc = "csv"
    /\ csv_logger' = WriteRows(csv_logger, frame_index, vlm_tracks)
    /\ pc' = "video"
    /\ UNCHANGED << fixed, replay, failure, clock, stages, events_writer, video_writer,
                    summary_writer, stats, cache, locals, hist >>

\* WriteVideo that annotates only the frames that have a track.
WriteVideoOnlyWithTracks ==
    /\ pc = "video"
    /\ \E raised \in BOOLEAN :
          IF raised
          THEN /\ Raise("video_writer")
               /\ UNCHANGED << video_writer, frame_index >>
          ELSE /\ video_writer' =
                     IF vlm_tracks = <<>> THEN video_writer
                     ELSE VideoWriteFrame(video_writer, frame_index, vlm_tracks,
                                          spatial_events \o ppe_events)
               /\ frame_index' = frame_index + 1
               /\ pc' = "read" /\ failure' = failure
    /\ UNCHANGED << fixed, replay, fps, frame, timestamp_sec, stages, events_writer,
                    csv_logger, summary_writer, stats, cache, locals, hist >>

\* video_writer.write_frame(...); frame_index += 1 (pipeline.py 132-134)
WriteVideo ==
    /\ pc = "video"
    /\ \E raised \in BOOLEAN :
          IF raised
          THEN /\ Raise("video_writer")
               /\ UNCHANGED << video_writer, frame_index >>
          ELSE /\ video_writer' = VideoWriteFrame(video_writer, frame_index, vlm_tracks,
                                                  spatial_events \o ppe_events)
               /\ frame_index' = frame_index + 1
               /\ pc' = "read" /\ failure' = failure
    /\ UNCHANGED << fixed, replay, fps, frame, timestamp_sec, stages, events_writer,
                    csv_logger, summary_writer, stats, cache, locals, hist >>

\* FlushEvents that writes the summary as soon as the loop is left, before the
\* CSV log and the video are closed.
FlushEventsThenSummary ==
    /\ pc = "flush_events"
    /\ events_writer' = [events_writer EXCEPT !.flushed = @ + 1]
    /\ summary_writer' = [summary_writer EXCEPT !.total_frames = frame_index,
                                                !.stats = stats, !.flushed = @ + 1]
    /\ pc' = "close_csv"
    /\ UNCHANGED << fixed, replay, failure, clock, stages, csv_logger, video_writer,
                    stats, cache, locals, hist >>

\* cap.release(); events_writer.flush() (pipeline.py 138-140)
FlushEvents ==
    /\ pc = "flush_events"
    /\ events_writer' = [events_writer EXCEPT !.flushed = @ + 1]
    /\ pc' = "close_csv"
    /\ UNCHANGED << fixed, replay, failure, clock, stages, csv_logger, video_writer,
                    summary_writer, stats, cache, locals, hist >>

\* csv_logger.close() (pipeline.py 141)
CloseCSV ==
    /\ pc = "close_csv"
    /\ csv_logger' = [csv_logger EXCEPT !.closed = @ + 1]
    /\ pc' = "close_video"
    /\ UNCHANGED << fixed, replay, failure, clock, stages, events_writer, video_writer,
                    summary_writer, stats, cache, locals, hist >>

\* video_writer.close() (pipeline.py 142)
CloseVideo ==
    /\ pc = "close_video"
    /\ video_writer' = [video_writer EXCEPT !.closed = @ + 1]
    /\ pc' = "summary"
    /\ UNCHANGED << fixed, replay, failure, clock, stages, events_writer, csv_logger,
                    summary_writer, stats, cache, locals, hist >>

\* summary_writer.set_stats(...); summary_writer.flush() (pipeline.py 143-155)
WriteSummary ==
    /\ pc = "summary"
    /\ summary_writer' = [summary_writer EXCEPT !.total_frames = frame_index,
                                                !.stats = stats, !.flushed = @ + 1]
    /\ pc' = "done"
    /\ UNCHANGED << fixed, replay, failure, clock, stages, events_writer, csv_logger,
                    video_writer, stats, cache, locals, hist >>

\* What the caller of run() gets: None from a run that completes (run() has no
\* return statement), the exception from one that does not.
CompletionStatus == IF pc = "failed" THEN failure ELSE "None"

Next ==
    \/ LoadCalibration \/ LoadZones \/ OpenVideo \/ Construct
    \/ ReadFrame \/ Abort \/ Detect \/ Track \/ Spatial \/ VLM \/ WriteCSV \/ WriteVideo
    \/ FlushEvents \/ CloseCSV \/ CloseVideo \/ WriteSummary

Spec == Init /\ [][Next]_vars

(* ------------------------------- replay -------------------------------- *)

\* The longest video that is replayed.
MaxReplayFrames == 3

\* run() has completed and is called again on the same input.  Its variables
\* are locals that keep whatever they hold until the code assigns them; the
\* input and the output of the completed run are kept in first.
Restart ==
    /\ pc = "done" /\ first.mode = "record"
    /\ first' = [mode |-> "replay", video |-> video, fps |-> fps,
                 model |-> detection.model, log |-> events_writer.events,
                 counters |-> summary_writer.stats]
    /\ pc' = "load_calibration"
    /\ video' = <<>>
    /\ frames_read' = 0 /\ detect_calls' = <<>> /\ track_calls' = <<>>
    /\ emitted' = <<>> /\ active' = <<>>
    /\ UNCHANGED << fixed, failure, clock, stages, io, stats, cache, locals,
                    input_ok >>

\* The replay is given the input of the first run: the inputs load, the video
\* has the same frame rate and the same frames, the detection model is as
\* available as it was, and nothing interrupts the run.
SameInput ==
    /\ Len(video') <= MaxReplayFrames
    /\ first.mode = "replay" =>
          /\ pc' # "failed"
          /\ fps' = first.fps
          /\ detection'.model \in {"None", first.model}
          /\ Len(video') <= Len(first.video)
          /\ SubSeq(first.video, 1, Len(video')) = video'
          /\ (pc = "read" /\ pc' = "flush_events") => video = first.video

InitReplay ==
    InitRun /\ first = [NoFirst EXCEPT !.mode = "record"] /\ classifier_ok = TRUE
    /\ AppIdle

NextReplay == (Next /\ SameInput) \/ Restart

SpecReplay == InitReplay /\ [][NextReplay]_vars

(* ----------------------- with or without classifier ------------------- *)

\* The longest video of a run whose classifier may be unavailable.
MaxClassifierFrames == 3

\* run() is entered where the PPE classifier is available or is not.
InitClassifier ==
    InitRun /\ first = NoFirst /\ classifier_ok \in BOOLEAN /\ AppIdle

ShortVideo == frames_read' <= MaxClassifierFrames

NextClassifier == Next /\ ShortVideo

SpecClassifier == InitClassifier /\ [][NextClassifier]_vars

(* ----------------------- app: SafetyAgent.process ---------------------- *)

\* Every variable of run().
pipeline == << pc, FRAME_SKIP, failure, clock, stages, io, stats, cache, locals,
               hist, classifier_ok, replay >>

\* run() is not what is looked at: it stands at its entry.
PipelineIdle == InitRun /\ FRAME_SKIP = 1 /\ first = NoFirst /\ classifier_ok = TRUE

\* process(site_id, video_result) is entered with some video result.
InitSafety ==
    /\ PipelineIdle /\ DbIdle /\ JobIdle
    /\ video_result \in VideoResults
    /\ safety_pc = "phase1"
    /\ violations = <<>>
    /\ ppe_compliance = <<>> /\ zone_adherence = <<>>
    /\ overall_risk = "low"
    /\ summary = Str("")
    /\ raw_response = NoResponse
    /\ report = NoReport

\* Phase 1: the rule checks, the compliance dicts and the risk level.
RunChecks ==
    /\ safety_pc = "phase1"
    /\ violations' = run_deterministic_checks(video_result)
    /\ LET c == compute_compliance(video_result, violations')
       IN  /\ ppe_compliance' = c.ppe_compliance
           /\ zone_adherence' = c.zone_adherence
    /\ overall_risk' = compute_overall_risk(violations')
    /\ safety_pc' = "phase2"
    /\ UNCHANGED << video_result, summary, raw_response, report, pipeline, dbq, job >>

\* Phase 2, llm.chat returns: the summary is what the response parses to,
\* the fallback text when parsing raises inside the try.
LLMSummary ==
    /\ safety_pc = "phase2"
    /\ \E raw \in Responses :
          /\ raw_response' = [call |-> "returned", raw |-> raw]
          /\ LET parsed == parse_summary_response(raw)
             IN  summary' = IF parsed.raised
                            THEN AutoSummary(violations, overall_risk)
                            ELSE parsed.value
    /\ safety_pc' = "return"
    /\ UNCHANGED << video_result, violations, ppe_compliance, zone_adherence,
                    overall_risk, report, pipeline, dbq, job >>

\* Phase 2, get_llm_client() or llm.chat raises: "except Exception" writes
\* the fallback summary.
LLMFails ==
    /\ safety_pc = "phase2"
    /\ raw_response' = [NoResponse EXCEPT !.call = "raised"]
    /\ summary' = AutoSummary(violations, overall_risk)
    /\ safety_pc' = "return"
    /\ UNCHANGED << video_result, violations, ppe_compliance, zone_adherence,
                    overall_risk, report, pipeline, dbq, job >>

\* return SafetyReport(...): the model validates its fields, and summary is
\* declared str; the validation error leaves process().
Return ==
    /\ safety_pc = "return"
    /\ IF summary.type = "str"
       THEN /\ report' = [violations |-> violations,
                          ppe_compliance |-> ppe_compliance,
                          zone_adherence |-> zone_adherence,
                          overall_risk |-> overall_risk,
                          summary |-> summary.text]
            /\ safety_pc' = "returned"
       ELSE /\ safety_pc' = "raised"
            /\ UNCHANGED report
    /\ UNCHANGED << video_result, violations, ppe_compliance, zone_adherence,
                    overall_risk, summary, raw_response, pipeline, dbq, job >>

NextSafety == RunChecks \/ LLMSummary \/ LLMFails \/ Return

SpecSafety == InitSafety /\ [][NextSafety]_vars

(* --------------------------- app: _db_query ---------------------------- *)

\* The service starts with no client and has made no query.
InitDb ==
    /\ PipelineIdle /\ SafetyIdle /\ JobIdle
    /\ DbIdle

\* get_supabase() of the calling function: the singleton is created if there
\* is none; then _db_query(fn) is entered.
EnterQuery ==
    /\ db_pc = "idle" /\ Len(db_log) < MaxQueries
    /\ client' = "client"
    /\ db_pc' = "to_thread"
    /\ invocations' = <<>> /\ resets' = 0
    /\ UNCHANGED << db_log, pipeline, safety, job >>

\* How a query ended: what it gave its caller, after which calls of fn and
\* how many resets, and the singleton it left.
Finished(calls, n, left) ==
    [result |-> calls[Len(calls)], invocations |-> calls, resets |-> n,
     client |-> left]

\* await asyncio.to_thread(fn) inside the try: the value is returned; a read
\* error resets the client and goes on to the retry; any other exception
\* leaves _db_query.
FirstAttempt ==
    /\ db_pc = "to_thread"
    /\ \E outcome \in Outcomes :
          /\ invocations' = Append(invocations, outcome)
          /\ IF IsRaise(outcome) /\ IsException(outcome) /\ IsReadError(outcome)
             THEN /\ client' = "None"
                  /\ resets' = resets + 1
                  /\ db_pc' = "retry"
                  /\ UNCHANGED db_log
             ELSE /\ db_pc' = "idle"
                  /\ db_log' = Append(db_log, Finished(invocations', resets, client))
                  /\ UNCHANGED << client, resets >>
    /\ UNCHANGED << pipeline, safety, job >>

\* return await asyncio.to_thread(fn) in the handler: whatever the second
\* call gives is what _db_query gives.
Retry ==
    /\ db_pc = "retry"
    /\ \E outcome \in Outcomes :
          invocations' = Append(invocations, outcome)
    /\ db_pc' = "idle"
    /\ db_log' = Append(db_log, Finished(invocations', resets, client))
    /\ UNCHANGED << client, resets, pipeline, safety, job >>

NextDb == EnterQuery \/ FirstAttempt \/ Retry

SpecDb == InitDb /\ [][NextDb]_vars

(* --------------------------- app: video job ---------------------------- *)

\* No video is uploaded yet.
InitJob ==
    /\ PipelineIdle /\ SafetyIdle /\ DbIdle
    /\ JobIdle

\* job.status is assigned.
SetStatus(status) ==
    /\ job_status' = status
    /\ status_log' = Append(status_log, status)

\* An awaited call of _process_video has returned or raised.
Awaited(call, raised) == [call |-> call, raised |-> raised]

\* upload_video: create_job() stores the job as queued and the background
\* task is scheduled.
UploadVideo ==
    /\ job_status = "None"
    /\ SetStatus("queued")
    /\ task_pc' = "scheduled"
    /\ UNCHANGED << cb_pc, callbacks, broadcasts, attempts, pipeline, safety, dbq >>

\* _process_video starts: the job is set to processing and the video agent
\* is awaited.
StartTask ==
    /\ task_pc = "scheduled"
    /\ SetStatus("processing")
    /\ task_pc' = "video_agent"
    /\ UNCHANGED << cb_pc, callbacks, broadcasts, attempts, pipeline, safety, dbq >>

\* agent.process() returns, and saving the result is awaited; or it raises,
\* the handler sets the job to failed and awaits the error broadcast.
VideoAgentDone ==
    /\ task_pc = "video_agent"
    /\ \E raised \in BOOLEAN :
          /\ attempts' = Append(attempts, Awaited("video", raised))
          /\ IF raised
             THEN SetStatus("failed") /\ task_pc' = "broadcast_error"
             ELSE task_pc' = "save_video_result"
                  /\ UNCHANGED << job_status, status_log >>
    /\ UNCHANGED << cb_pc, callbacks, broadcasts, pipeline, safety, dbq >>

\* db.save_video_result() returns, the job is set to completed and the
\* video_complete broadcast is awaited; or it raises, inside the same try.
VideoResultSaved ==
    /\ task_pc = "save_video_result"
    /\ \E raised \in BOOLEAN :
          /\ attempts' = Append(attempts, Awaited("save_video_result", raised))
          /\ IF raised
             THEN SetStatus("failed") /\ task_pc' = "broadcast_error"
             ELSE SetStatus("completed") /\ task_pc' = "broadcast_video_complete"
    /\ UNCHANGED << cb_pc, callbacks, broadcasts, pipeline, safety, dbq >>

\* ConnectionManager.broadcast: the message goes to the channel's sockets; a
\* socket that raises is dropped, nothing is raised to the caller.
Broadcast(stage) == broadcasts' = Append(broadcasts, stage)

\* The error of the failed video step is broadcast and _process_video
\* returns.
BroadcastError ==
    /\ task_pc = "broadcast_error"
    /\ Broadcast("error")
    /\ task_pc' = "returned"
    /\ UNCHANGED << job_status, status_log, cb_pc, callbacks, attempts,
                    pipeline, safety, dbq >>

\* video_complete is broadcast and the safety agent is awaited.
BroadcastVideoComplete ==
    /\ task_pc = "broadcast_video_complete"
    /\ Broadcast("video_complete")
    /\ task_pc' = "safety_agent"
    /\ UNCHANGED << job_status, status_log, cb_pc, callbacks, attempts,
                    pipeline, safety, dbq >>

\* SafetyAgent().process() returns and saving the report is awaited, or it
\* raises.
SafetyAgentDone ==
    /\ task_pc = "safety_agent"
    /\ \E raised \in BOOLEAN :
          /\ attempts' = Append(attempts, Awaited("safety", raised))
          /\ task_pc' = IF raised THEN "broadcast_safety_error"
                        ELSE "save_safety_report"
    /\ UNCHANGED << job_status, status_log, cb_pc, callbacks, broadcasts,
                    pipeline, safety, dbq >>

\* db.save_safety_report() returns or raises, inside the safety try.
SafetyReportSaved ==
    /\ task_pc = "save_safety_report"
    /\ \E raised \in BOOLEAN :
          /\ attempts' = Append(attempts, Awaited("save_safety_report", raised))
          /\ task_pc' = IF raised THEN "broadcast_safety_error"
                        ELSE "broadcast_safety_complete"
    /\ UNCHANGED << job_status, status_log, cb_pc, callbacks, broadcasts,
                    pipeline, safety, dbq >>

\* BroadcastSafety returning from _process_video after a safety failure.
BroadcastSafetyStopsOnError ==
    /\ task_pc \in {"broadcast_safety_complete", "broadcast_safety_error"}
    /\ Broadcast(IF task_pc = "broadcast_safety_complete"
                 THEN "safety_complete" ELSE "error")
    /\ task_pc' = IF task_pc = "broadcast_safety_complete"
                  THEN "productivity_agent" ELSE "returned"
    /\ UNCHANGED << job_status, status_log, cb_pc, callbacks, attempts,
                    pipeline, safety, dbq >>

\* safety_complete, or the error of the safety step, is broadcast; either
\* way the productivity agent is awaited next.
BroadcastSafety ==
    /\ task_pc \in {"broadcast_safety_complete", "broadcast_safety_error"}
    /\ Broadcast(IF task_pc = "broadcast_safety_complete"
                 THEN "safety_complete" ELSE "error")
    /\ task_pc' = "productivity_agent"
    /\ UNCHANGED << job_status, status_log, cb_pc, callbacks, attempts,
                    pipeline, safety, dbq >>

\* ProductivityAgent().process() returns or raises.
ProductivityAgentDone ==
    /\ task_pc = "productivity_agent"
    /\ \E raised \in BOOLEAN :
          /\ attempts' = Append(attempts, Awaited("productivity", raised))
          /\ task_pc' = IF raised THEN "broadcast_productivity_error"
                        ELSE "broadcast_productivity_complete"
    /\ UNCHANGED << job_status, status_log, cb_pc, callbacks, broadcasts,
                    pipeline, safety, dbq >>

\* productivity_complete, or the error of the productivity step, is
\* broadcast; the site's figures are updated and the last broadcast is
\* awaited.
BroadcastProductivity ==
    /\ task_pc \in {"broadcast_productivity_complete", "broadcast_productivity_error"}
    /\ Broadcast(IF task_pc = "broadcast_productivity_complete"
                 THEN "productivity_complete" ELSE "error")
    /\ task_pc' = "broadcast_pipeline_complete"
    /\ UNCHANGED << job_status, status_log, cb_pc, callbacks, attempts,
                    pipeline, safety, dbq >>

\* pipeline_complete is broadcast and _process_video returns.
BroadcastPipelineComplete ==
    /\ task_pc = "broadcast_pipeline_complete"
    /\ Broadcast("pipeline_complete")
    /\ task_pc' = "returned"
    /\ UNCHANGED << job_status, status_log, cb_pc, callbacks, attempts,
                    pipeline, safety, dbq >>

\* POST /jobs/{job_id}/complete arrives for the job: saving the posted
\* result is awaited.
CompleteJobRequest ==
    /\ job_status # "None" /\ cb_pc = "idle" /\ callbacks < MaxCallbacks
    /\ callbacks' = callbacks + 1
    /\ cb_pc' = "save_video_result"
    /\ UNCHANGED << job_status, status_log, task_pc, broadcasts, attempts,
                    pipeline, safety, dbq >>

\* complete_job after its await: the job is set to completed, whatever its
\* status is; if saving raised, the handler is left before that.
CompleteJobSaved ==
    /\ cb_pc = "save_video_result"
    /\ \E raised \in BOOLEAN :
          IF raised THEN UNCHANGED << job_status, status_log >>
          ELSE SetStatus("completed")
    /\ cb_pc' = "idle"
    /\ UNCHANGED << task_pc, callbacks, broadcasts, attempts, pipeline, safety, dbq >>

NextJob ==
    \/ UploadVideo \/ StartTask \/ VideoAgentDone \/ VideoResultSaved
    \/ BroadcastError \/ BroadcastVideoComplete
    \/ SafetyAgentDone \/ SafetyReportSaved \/ BroadcastSafety
    \/ ProductivityAgentDone \/ BroadcastProductivity \/ BroadcastPipelineComplete
    \/ CompleteJobRequest \/ CompleteJobSaved

SpecJob == InitJob /\ [][NextJob]_vars

(* ------------------------------ properties ----------------------------- *)

\* The orchestrator's state (section 4.7) at each place of run().
RunState ==
    CASE pc \in {"load_calibration", "load_zones", "open_video"} -> "Loading"
      [] pc \in {"construct", "read", "detect", "track", "spatial", "vlm", "csv",
                 "video"} -> "Running"
      [] pc \in {"flush_events", "close_csv", "close_video", "summary"} -> "Flushing"
      [] pc = "done" -> "Done"
      [] pc = "failed" -> "Failed"

CountType(log, type) == Len(SelectSeq(log, LAMBDA e : Get(e, "type", "") = type))

RECURSIVE SumOver(_, _)
SumOver(f, S) ==
    IF S = {} THEN 0
    ELSE LET k == CHOOSE x \in S : TRUE IN f[k] + SumOver(f, S \ {k})

IsPrefix(s, t) == Len(s) <= Len(t) /\ SubSeq(t, 1, Len(s)) = s

TsLeq(a, b) == a.num * b.den <= b.num * a.den

\* Stage 2 of frame i is over.
Tracked(i) ==
    \/ i < frame_index
    \/ i = frame_index /\ pc \in {"spatial", "vlm", "csv", "video"}

\* The rows of frame i are written.
RowsWritten(i) == i < frame_index \/ (i = frame_index /\ pc = "video")

\* The spatial counters of st agree with the events of log.
CountersMatch(st, log) ==
    /\ st.proximity_warnings + st.proximity_critical = CountType(log, "proximity_alert")
    /\ st.ttc_warnings = CountType(log, "ttc_warning")
    /\ SumOver(st.zone_violations, DOMAIN st.zone_violations)
         = CountType(log, "zone_entry")

\* C1: in every state of the run, and in the summary once it is written,
\* proximity_warnings + proximity_critical is the number of proximity_alert
\* events added to the event log, ttc_warnings the number of ttc_warning
\* events, and the zone_violations sum to the number of zone_entry events.
C1_CountersMatchEventLog ==
    /\ CountersMatch(stats, events_writer.events)
    /\ pc = "done" => CountersMatch(summary_writer.stats, events_writer.events)

\* A finished run whose log holds an event of each spatial kind and severity.
C1_Witness ==
    /\ pc = "done"
    /\ summary_writer.stats.proximity_warnings >= 1
    /\ summary_writer.stats.proximity_critical >= 1
    /\ summary_writer.stats.ttc_warnings >= 1
    /\ ZoneName \in DOMAIN summary_writer.stats.zone_violations
    /\ summary_writer.stats.zone_violations[ZoneName] >= 2

\* C2: the detector is called on frame i only when i % FRAME_SKIP = 0, and a
\* call of DetectionStage.run on any other frame index returns the empty list
\* without loading or running the model.
C2_DetectorOnlyOnSkipMultiples ==
    /\ \A k \in 1..Len(detect_calls) : detect_calls[k].frame % FRAME_SKIP = 0
    /\ \A i \in 0..MaxFrames, load \in LoadOutcomes, predict \in PredictOutcomes :
          i % detection.frame_skip # 0 =>
             LET r == DetectionRun(detection, frame, i, load, predict) IN
             /\ r.out = <<>> /\ ~r.touched /\ ~r.predicted /\ ~r.raised
             /\ r.self = detection

\* A run that skipped the detector on some frames and ran the model on others.
C2_Witness ==
    /\ pc = "done" /\ FRAME_SKIP > 1
    /\ frames_read > Len(detect_calls)
    /\ \E j, k \in 1..Len(detect_calls) :
          j # k /\ detect_calls[j].predicted /\ detect_calls[k].predicted

\* The detector calls before frame i that returned detections.
Successes(i) ==
    {k \in 1..Len(detect_calls) :
        detect_calls[k].frame < i /\ detect_calls[k].out # <<>>}

Latest(S) == CHOOSE k \in S : \A j \in S : j <= k

TrackCallsAt(i) == {k \in 1..Len(track_calls) : track_calls[k].frame = i}

\* C3: on a frame whose index is no multiple of FRAME_SKIP the detector is not
\* run, and the tracker is called once, with the result of the latest earlier
\* detector call that returned detections (and not at all when there is none).
C3_SkippedFrameReusesLastDetections ==
    \A i \in 0..MaxFrames :
       (i % FRAME_SKIP # 0 /\ Tracked(i)) =>
           /\ \A k \in 1..Len(detect_calls) : detect_calls[k].frame # i
           /\ IF Successes(i) = {} THEN TrackCallsAt(i) = {}
              ELSE /\ Cardinality(TrackCallsAt(i)) = 1
                   /\ \A k \in TrackCallsAt(i) :
                         track_calls[k].dets = detect_calls[Latest(Successes(i))].out

\* A skipped frame that reuses the second of two different detector results.
C3_Witness ==
    \E i \in 0..MaxFrames :
       /\ i % FRAME_SKIP # 0 /\ Tracked(i)
       /\ Cardinality(Successes(i)) >= 2
       /\ \E j \in Successes(i) :
             detect_calls[j].out # detect_calls[Latest(Successes(i))].out
       /\ TrackCallsAt(i) # {}

RowsOf(i) == SelectSeq(csv_logger.rows, LAMBDA r : r.frame = i)

\* C4: once the rows of a frame are written, the object log holds exactly one
\* row of that frame for each track of the frame, on detection frames and on
\* skipped frames alike.
C4_OneRowPerTrackPerFrame ==
    \A i \in 0..MaxFrames :
       RowsWritten(i) =>
          LET rows == RowsOf(i)
              trs  == active[i + 1]
          IN  /\ Len(rows) = Len(trs)
              /\ \A a, b \in 1..Len(rows) :
                    rows[a].object_id = rows[b].object_id => a = b
              /\ {rows[a].object_id : a \in 1..Len(rows)}
                   = {trs[a].object_id : a \in 1..Len(trs)}

\* Two tracks get their rows on a frame on which detection was skipped.
C4_Witness ==
    \E i \in 0..MaxFrames :
       /\ i % FRAME_SKIP # 0 /\ RowsWritten(i)
       /\ Len(RowsOf(i)) = 2

\* C5: a stage that raises while a frame is processed does not end the run in
\* Failed: the frame is skipped and the run goes on to Flushing and Done.
C5_StageFailureNeverFailsRun ==
    failure \in {"detector", "tracker", "spatial", "vlm"} => RunState # "Failed"

\* C6: the video writer raising in write_frame does not abort the run: the
\* later frames are still logged and the event log is flushed at run end.
C6_WriterFailureDoesNotAbort ==
    failure = "video_writer" =>
        /\ pc # "failed"
        /\ pc = "done" => events_writer.flushed = 1

NothingStarted ==
    /\ frames_read = 0 /\ detect_calls = <<>> /\ track_calls = <<>>
    /\ emitted = <<>> /\ active = <<>>
    /\ ~events_writer.created /\ ~csv_logger.created
    /\ ~video_writer.created /\ ~summary_writer.created
    /\ events_writer.events = <<>> /\ csv_logger.rows = <<>>
    /\ video_writer.frames = <<>> /\ summary_writer.flushed = 0

\* C7: with a calibration or zones file that does not load, or a video that
\* does not open, the run has failed with no frame read, no stage called and
\* no writer created or written.
C7_FatalInputAbortsBeforeLoop ==
    (~input_ok.calibration \/ ~input_ok.zones \/ ~input_ok.video) =>
        pc = "failed" /\ NothingStarted

\* The calibration and the zones loaded, and the video did not open.
C7_Witness ==
    /\ pc = "failed" /\ failure = "video"
    /\ input_ok.calibration /\ input_ok.zones /\ ~input_ok.video

\* The load of the detection model was tried and gave no model.
LoadFailed == detection.loads >= 1 /\ detection.model # "RTDETR"

\* C8: once the model has failed to load, every call of DetectionStage.run of
\* the run has returned the empty list without raising, a further call on any
\* frame index does so too, and the run has not failed in the detector.
C8_LoadFailureDegradesToEmpty ==
    LoadFailed =>
        /\ failure # "detector"
        /\ \A k \in 1..Len(detect_calls) :
              detect_calls[k].out = <<>> /\ ~detect_calls[k].raised
        /\ \A i \in 0..MaxFrames, f \in Scenes, load \in LoadOutcomes,
              predict \in PredictOutcomes :
              LET r == DetectionRun(detection, f, i, load, predict) IN
              r.out = <<>> /\ ~r.raised /\ ~r.predicted

\* A run that went through all its frames and finished with the placeholder.
C8_Witness ==
    /\ pc = "done" /\ LoadFailed
    /\ frames_read = MaxFrames /\ Len(detect_calls) >= 2
    /\ Len(video_writer.frames) = MaxFrames

\* C9: the load is tried at most once in a run, exactly once as soon as a call
\* reached _load_model; a failed load has logged exactly one warning, and no
\* further call, whatever its frame, loads or warns again.
C9_LoadAttemptedAndWarnedOnce ==
    /\ detection.loads <= 1 /\ detection.warnings <= 1
    /\ (\E k \in 1..Len(detect_calls) : detect_calls[k].touched) => detection.loads = 1
    /\ detection.model = "placeholder" => detection.warnings = 1
    /\ detection.model = "RTDETR" => detection.warnings = 0
    /\ detection.model # "None" =>
          \A i \in 0..MaxFrames, f \in Scenes, load \in LoadOutcomes,
             predict \in PredictOutcomes :
             LET r == DetectionRun(detection, f, i, load, predict) IN
             r.self.loads = detection.loads /\ r.self.warnings = detection.warnings

\* Two calls of the detector after a load that failed.
C9_Witness ==
    /\ detection.model = "placeholder" /\ detection.warnings = 1
    /\ \E j, k \in 1..Len(detect_calls) :
          j < k /\ detect_calls[j].touched /\ detect_calls[k].touched

IsPPE(e) == Get(e, "type", "") = "ppe_observation"

\* Frames and timestamps do not decrease along log, and within a frame no
\* spatial event follows a PPE event.
InEmissionOrder(log) ==
    \A a, b \in 1..Len(log) :
       a < b =>
          /\ log[a].frame <= log[b].frame
          /\ TsLeq(log[a].timestamp, log[b].timestamp)
          /\ log[a].frame = log[b].frame => ~(IsPPE(log[a]) /\ ~IsPPE(log[b]))

\* C10: the event log is the sequence of the events the spatial and VLM stages
\* returned, each once and in emission order, with non-decreasing timestamps,
\* and a step of the run only ever appends to it.
C10_EventLogAppendOnlyInOrder ==
    /\ [](events_writer.events = emitted /\ InEmissionOrder(events_writer.events))
    /\ [][IsPrefix(events_writer.events, events_writer.events')]_vars

\* A finished run with spatial and PPE events of the same frame and events of
\* a later frame in its log.
C10_Witness ==
    /\ pc = "done"
    /\ \E a, b, c \in 1..Len(events_writer.events) :
          LET log == events_writer.events IN
          /\ a < b /\ b < c
          /\ ~IsPPE(log[a]) /\ IsPPE(log[b]) /\ log[a].frame = log[b].frame
          /\ log[b].frame < log[c].frame

\* C11: a replay of a completed run on the same input (the same frames, frame
\* rate, FRAME_SKIP and detection model) writes the same event log, event by
\* event, and ends with the same summary counters, whatever the variables of
\* run() held when it was entered.
C11_ReplayYieldsSameLogAndCounters ==
    first.mode = "replay" =>
       /\ IsPrefix(events_writer.events, first.log)
       /\ pc = "done" =>
             /\ events_writer.events = first.log
             /\ summary_writer.stats = first.counters
             /\ summary_writer.total_frames = Len(first.video)

\* A replay has completed on a video of three frames with FRAME_SKIP 2 whose
\* log holds events of a skipped frame.
C11_Witness ==
    /\ first.mode = "replay" /\ pc = "done"
    /\ FRAME_SKIP = 2 /\ Len(first.video) = 3
    /\ \E n \in 1..Len(events_writer.events) : events_writer.events[n].frame = 1

\* C12: the summary is written once, when the run completes: not before the
\* last frame is processed and the event log, the CSV log and the video are
\* flushed and closed; it holds the counters of the run, and its total_frames
\* is the number of frames processed.
C12_SummaryOnceAtCompletion ==
    /\ summary_writer.flushed = (IF pc = "done" THEN 1 ELSE 0)
    /\ summary_writer.flushed = 1 =>
          /\ events_writer.flushed = 1
          /\ csv_logger.closed = 1
          /\ video_writer.closed = 1
          /\ summary_writer.total_frames = frames_read
          /\ summary_writer.total_frames = Len(video_writer.frames)
          /\ summary_writer.stats = stats
          /\ CountersMatch(summary_writer.stats, events_writer.events)

\* A finished run of three frames or more whose summary counts an event.
C12_Witness ==
    /\ pc = "done"
    /\ summary_writer.flushed = 1
    /\ summary_writer.total_frames >= 3
    /\ summary_writer.stats.proximity_critical > 0

\* The events of frame i in log, in their order.
EventsOfFrame(log, i) == SelectSeq(log, LAMBDA e : e.frame = i)

\* The run is between two frames or past the loop.
BetweenFrames == pc \in {"read", "flush_events", "close_csv", "close_video",
                         "summary", "done"}

\* C13: the annotated video holds the frames whose processing is over, each
\* once and in increasing frame order, frames without a detector call and
\* frames without a track included, each with the tracks and the events of
\* that frame; between two frames and at the end these are all the frames read.
C13_EveryFrameInVideoOnce ==
    LET out == video_writer.frames IN
    /\ Len(out) = frame_index
    /\ BetweenFrames => Len(out) = frames_read
    /\ \A k \in 1..Len(out) :
          /\ out[k].frame = k - 1
          /\ out[k].events = EventsOfFrame(emitted, k - 1)
          /\ out[k].ids = [j \in 1..Len(active[k]) |-> active[k][j].object_id]

\* A finished run whose video holds a skipped frame with events and a frame
\* with no track.
C13_Witness ==
    /\ pc = "done"
    /\ \E k, l \in 1..Len(video_writer.frames) :
          /\ (k - 1) % FRAME_SKIP # 0
          /\ video_writer.frames[k].events # <<>>
          /\ video_writer.frames[l].ids = <<>>

\* C14: a run aborted between two frames leaves its outputs flushed and
\* closed: the event log is flushed, the CSV log and the video are closed, and
\* they hold the records of the frames processed before the abort.
C14_AbortLeavesOutputsClosed ==
    failure = "abort" =>
       /\ events_writer.flushed = 1
       /\ csv_logger.closed = 1
       /\ video_writer.closed = 1
       /\ Len(video_writer.frames) = frame_index

\* The degraded stages the summary names: set_stats() is given the frame count
\* and the counters only.
SummaryDegradedStages == Get(summary_writer, "degraded_stages", <<>>)

\* C15: a run that completes with the detector degraded (its model could not
\* be loaded) ends with a completion status other than the one of a complete
\* run, and its summary names the detector among the degraded stages.
C15_DegradedRunIsFlagged ==
    (pc = "done" /\ LoadFailed) =>
       /\ CompletionStatus # "None"
       /\ "detector" \in Range(SummaryDegradedStages)

\* The detector's view of the scene at frame k: the result of its latest call
\* at or before frame k, empty or not.
DetectorView(k) ==
    LET S == {c \in 1..Len(detect_calls) :
                 detect_calls[c].frame <= k /\ ~detect_calls[c].raised}
    IN  IF S = {} THEN <<>>
        ELSE detect_calls[CHOOSE c \in S : \A d \in S : d <= c].out

\* The detector's view at frame k holds the object of track t.
Detected(t, k) == \E d \in Range(DetectorView(k)) : d.class_name = t.class_name

\* C16: a track is handed downstream, and has rows in the object log, only on
\* frames at which the detector's view held its object within the last
\* PATIENCE frames: once the detector no longer detects the object, the track
\* is gone after the patience window.
C16_LostTrackIsDestroyed ==
    \A i \in 0..MaxFrames :
       Tracked(i) =>
          /\ \A t \in Range(active[i + 1]) :
                \E k \in 0..i : i - k <= PATIENCE /\ Detected(t, k)
          /\ RowsWritten(i) =>
                \A r \in Range(RowsOf(i)) :
                   \E k \in 0..i : i - k <= PATIENCE
                                   /\ Detected([class_name |-> r.class], k)

\* The same holds of every run in which the detector never returns the empty
\* list: the tracker is then updated on every frame.
LostTrackIsDestroyedWhileDetecting ==
    (\A c \in 1..Len(detect_calls) : detect_calls[c].out # <<>>)
       => C16_LostTrackIsDestroyed

\* The tracker is updated on frames i - 1 and i, with the same detections.
SameUpdateTwice(i) ==
    /\ i >= 1 /\ Tracked(i)
    /\ TrackCallsAt(i - 1) # {} /\ TrackCallsAt(i) # {}
    /\ \A a \in TrackCallsAt(i - 1), b \in TrackCallsAt(i) :
          track_calls[a].dets = track_calls[b].dets

\* Track t is among ts, with its id, class and position.
HeldIn(t, ts) ==
    \E u \in Range(ts) : /\ u.object_id = t.object_id
                         /\ u.class_name = t.class_name
                         /\ u.bbox = t.bbox

IdsOf(k) == {active[k][j].object_id : j \in 1..Len(active[k])}

\* The track ids handed downstream before the k-th frame.
IdsBefore(k) == UNION {IdsOf(j) : j \in 1..(k - 1)}

\* C18: the tracks of a frame have pairwise different ids; an id that was not
\* among the tracks of the frame before is greater than every id handed out
\* until then, so the id of a destroyed track never comes back.
C18_TrackIdsUniqueAndMonotone ==
    \A k \in 1..Len(active) :
       /\ \A a, b \in 1..Len(active[k]) :
             active[k][a].object_id = active[k][b].object_id => a = b
       /\ \A x \in IdsOf(k) :
             (k = 1 \/ x \notin IdsOf(k - 1)) => \A y \in IdsBefore(k) : y < x
       /\ \A x \in IdsOf(k) : x < tracking.next_id

\* A track was destroyed and a later frame has a new track.
C18_Witness ==
    \E k \in 1..Len(active) :
       /\ \E x \in IdsBefore(k) : x \notin IdsOf(k)
       /\ \E y \in IdsOf(k) : y \notin IdsBefore(k)

Min(a, b) == IF a <= b THEN a ELSE b

\* The last n elements of s.
Suffix(s, n) == SubSeq(s, Len(s) - n + 1, Len(s))

\* C19: the trail of every track handed downstream holds at most TRAIL_LEN
\* positions and is the newest end of the track's trajectory, oldest position
\* first: the oldest position is the one that leaves.
C19_TrailIsNewestWindow ==
    \A k \in 1..Len(active) :
       \A t \in Range(active[k]) :
          /\ Len(t.trail) <= TRAIL_LEN
          /\ t.trail = Suffix(t.trajectory, Min(TRAIL_LEN, Len(t.trajectory)))
          /\ t.trajectory[Len(t.trajectory)] = t.bbox

\* A track whose trajectory is longer than its trail and whose trail holds
\* two different positions.
C19_Witness ==
    \E k \in 1..Len(active) :
       \E t \in Range(active[k]) :
          /\ Len(t.trajectory) > TRAIL_LEN
          /\ t.trail[1] # t.trail[Len(t.trail)]
          /\ t.trajectory[1] # t.trail[1]

\* Stage 3 of frame i is over.
SpatialDone(i) ==
    \/ i < frame_index
    \/ i = frame_index /\ pc \in {"vlm", "csv", "video"}

\* Track id is inside the zone on the k-th frame.
InsideAt(k, id) ==
    \E t \in Range(active[k]) : t.object_id = id /\ InZone(PxToM(t.bbox))

\* Track id is inside the zone on the k-th frame and was not on the frame before.
EnteredAt(k, id) == InsideAt(k, id) /\ (k = 1 \/ ~InsideAt(k - 1, id))

\* The zone_entry events of track id at frame i in the event log.
ZoneEntriesOf(i, id) ==
    {n \in 1..Len(events_writer.events) :
        LET e == events_writer.events[n] IN
        e.type = "zone_entry" /\ e.frame = i /\ e.ids = <<id>>}

\* C20: the event log holds one zone_entry event of a track at a frame if the
\* track is inside the zone at that frame and was outside, or did not exist,
\* at the frame before, and none otherwise, frames that reuse the last tracks
\* included; the zone's counter is the number of its zone_entry events.
C20_ZoneEntryOncePerTransition ==
    /\ \A i \in 0..MaxFrames :
          SpatialDone(i) =>
             \A id \in 1..tracking.next_id :
                Cardinality(ZoneEntriesOf(i, id))
                   = (IF EnteredAt(i + 1, id) THEN 1 ELSE 0)
    /\ Get(stats.zone_violations, ZoneName, 0)
          = CountType(events_writer.events, "zone_entry")

\* A track entered the zone on the a-th frame, stayed on the next without a new
\* event, was outside on the b-th and entered again on the c-th; the counter
\* has counted its two entries.
C20_Witness ==
    \E id \in 1..tracking.next_id, a, b, c \in 1..Len(active) :
       /\ a < b /\ b < c
       /\ SpatialDone(c - 1)
       /\ EnteredAt(a, id) /\ InsideAt(a + 1, id)
       /\ ~InsideAt(b, id)
       /\ EnteredAt(c, id)
       /\ Cardinality(ZoneEntriesOf(a, id)) = 0
       /\ stats.zone_violations[ZoneName] >= 2

\* Stage 4 of frame i is over.
VLMDone(i) == i < frame_index \/ (i = frame_index /\ pc \in {"csv", "video"})

\* The PPE observations of track id at frame i in the event log.
PPEEventsOf(i, id) ==
    SelectSeq(events_writer.events,
              LAMBDA e : e.type = "ppe_observation" /\ e.frame = i /\ e.ids = <<id>>)

\* C21: with the classifier unavailable, every person track of a frame has
\* one PPE observation of that frame in the event log, holding both
\* attributes with the value "unknown", and the hardhat and vest flags of its
\* object-log row read "unknown": never left out, never "NO".
C21_UncheckedAttributesReadUnknown ==
    ~classifier_ok =>
       \A i \in 0..MaxFrames :
          /\ VLMDone(i) =>
                \A t \in Range(active[i + 1]) :
                   t.class_name = "person" =>
                      LET obs == PPEEventsOf(i, t.object_id) IN
                      /\ Len(obs) = 1
                      /\ Get(obs[1], "hardhat", "") = "unknown"
                      /\ Get(obs[1], "vest", "") = "unknown"
          /\ RowsWritten(i) =>
                \A t \in Range(active[i + 1]) :
                   t.class_name = "person" =>
                      \E r \in Range(RowsOf(i)) :
                         /\ r.object_id = t.object_id
                         /\ r.hardhat = "unknown" /\ r.vest = "unknown"

\* A finished run without classifier whose object log holds the rows of a
\* person at two frames, a skipped frame among them.
C21_Witness ==
    /\ ~classifier_ok /\ pc = "done" /\ FRAME_SKIP = 2
    /\ \E r1, r2 \in Range(csv_logger.rows) :
          /\ r1.class = "person" /\ r2.class = "person"
          /\ r1.frame = 0 /\ r2.frame = 1
          /\ r2.hardhat = "unknown"

\* C22 as stated: a run that completes with the detector unavailable from
\* frame 0 has, for each of its frames, a row in the object log whose
\* compliance flags read "unknown".
C22_DetectorDownRowPerFrame ==
    (LoadFailed /\ pc = "done") =>
       \A i \in 0..(frames_read - 1) :
          \E r \in Range(csv_logger.rows) :
             r.frame = i /\ r.hardhat = "unknown" /\ r.vest = "unknown"

\* C22, amended: with the detector unavailable from frame 0 the run does not
\* fail in the detector, no frame has a track and the object log stays empty
\* (no row is missing: there is no track to write a row for); the run that
\* completes has counted every frame and written it to the video.
C22_DetectorDownLeavesLogEmpty ==
    LoadFailed =>
       /\ failure # "detector"
       /\ \A k \in 1..Len(active) : active[k] = <<>>
       /\ csv_logger.rows = <<>>
       /\ events_writer.events = <<>>
       /\ pc = "done" =>
             /\ summary_writer.total_frames = frames_read
             /\ Len(video_writer.frames) = frames_read

\* A run of three frames or more has completed without detector.
C22_Witness ==
    /\ LoadFailed /\ pc = "done"
    /\ frames_read >= 3
    /\ detection.warnings = 1

\* No detector call at or before frame i has returned a detection.
NoDetectionYet(i) == Successes(i + 1) = {}

\* C23: while no detector call of the run has returned a detection, the
\* tracker is not called and the spatial and VLM stages are handed no track
\* and do not raise; the frame has no event, no row and no track, the
\* counters are as they were set up, and the frame is counted and written to
\* the annotated video.
C23_NothingHappensBeforeFirstDetection ==
    /\ \A i \in 0..MaxFrames :
          (Tracked(i) /\ NoDetectionYet(i)) =>
             /\ TrackCallsAt(i) = {}
             /\ active[i + 1] = <<>>
             /\ EventsOfFrame(events_writer.events, i) = <<>>
             /\ RowsOf(i) = <<>>
             /\ i < frame_index =>
                   /\ Len(video_writer.frames) >= i + 1
                   /\ video_writer.frames[i + 1].frame = i
                   /\ video_writer.frames[i + 1].ids = <<>>
                   /\ video_writer.frames[i + 1].events = <<>>
    /\ NoDetectionYet(frame_index) => failure \notin {"tracker", "spatial", "vlm"}
    /\ NoDetectionYet(frame_index) =>
          /\ stats = StatsInit
          /\ Len(video_writer.frames) = frame_index
          /\ pc = "done" => summary_writer.total_frames = frame_index

\* The model is loaded, the detector has found nothing on frames 0 and 2, and
\* three frames are counted and in the video.
C23_Witness ==
    /\ FRAME_SKIP = 2 /\ detection.model = "RTDETR"
    /\ frame_index = 3 /\ NoDetectionYet(2)
    /\ Len(video_writer.frames) = 3

\* The detector was called on frame i and returned the empty list.
EmptyResultAt(i) ==
    \E c \in 1..Len(detect_calls) :
       /\ detect_calls[c].frame = i
       /\ ~detect_calls[c].raised /\ detect_calls[c].out = <<>>

\* C25: last_detections is the latest non-empty result of the detector (empty
\* while there is none); the tracker is never called with an empty list; on a
\* detection frame on which the detector returns the empty list the tracker
\* is not called and the tracks of the frame before are handed on unchanged;
\* and on a skipped frame the tracker is fed the latest non-empty result.
C25_OnlyNonEmptyResultReplacesCache ==
    /\ last_detections =
          (IF Successes(MaxFrames + 1) = {} THEN <<>>
           ELSE detect_calls[Latest(Successes(MaxFrames + 1))].out)
    /\ \A k \in 1..Len(track_calls) : track_calls[k].dets # <<>>
    /\ \A i \in 0..MaxFrames :
          (Tracked(i) /\ EmptyResultAt(i)) =>
             /\ TrackCallsAt(i) = {}
             /\ active[i + 1] = (IF i = 0 THEN <<>> ELSE active[i])
    /\ \A i \in 0..MaxFrames :
          (Tracked(i) /\ i % FRAME_SKIP # 0) =>
             \A k \in TrackCallsAt(i) :
                /\ Successes(i) # {}
                /\ track_calls[k].dets = detect_calls[Latest(Successes(i))].out

\* The detector found objects on frame 0 and nothing on frame 2; frame 2 has
\* the tracks of frame 1 and the tracker is fed the detections of frame 0 on
\* frame 3.
C25_Witness ==
    /\ FRAME_SKIP = 2 /\ Tracked(3)
    /\ detect_calls[1].out # <<>>
    /\ EmptyResultAt(2)
    /\ active[3] = active[2] /\ active[3] # <<>>
    /\ \E k \in TrackCallsAt(3) : track_calls[k].dets = detect_calls[1].out

\* The PPE events of log whose attribute k has the value v.
PPEWith(log, k, v) == SelectSeq(log, LAMBDA e : IsPPE(e) /\ Get(e, k, "") = v)

\* The PPE counters of st agree with the PPE events of log.
PPECountersMatch(st, log) ==
    /\ st.hardhat_total = CountType(log, "ppe_observation")
    /\ st.vest_total = CountType(log, "ppe_observation")
    /\ st.hardhat_yes = Len(PPEWith(log, "hardhat", "YES"))
    /\ st.vest_yes = Len(PPEWith(log, "vest", "YES"))
    /\ st.hardhat_yes <= st.hardhat_total
    /\ st.vest_yes <= st.vest_total

\* C26: in every state of the run, and in the summary once it is written,
\* hardhat_total and vest_total are the number of PPE events in the event log
\* and hardhat_yes and vest_yes the number of those whose value is "YES": an
\* event with "NO" or "unknown" counts in the total only.
C26_PPETotalsCountEveryObservation ==
    /\ PPECountersMatch(stats, events_writer.events)
    /\ pc = "done" => PPECountersMatch(summary_writer.stats, events_writer.events)

\* A finished run without classifier: observations were counted, none as
\* compliant.
C26_Witness ==
    /\ pc = "done" /\ ~classifier_ok
    /\ Len(PPEWith(events_writer.events, "hardhat", "unknown")) >= 2
    /\ summary_writer.stats.hardhat_total >= 2
    /\ summary_writer.stats.hardhat_yes = 0

(* C24: every violation run_deterministic_checks returns has
   workers_affected >= 1, whatever the number of workers in the zone where a
   hazard, blocked egress, material stack or congestion rule fires.
   The hazard, egress, stacking and congestion rules set workers_affected to
   len(zone.workers), which is 0 in a zone where nobody is seen. *)
C24_EveryViolationAffectsAWorker ==
    \A i \in 1..Len(violations) : violations[i].workers_affected >= 1

(* C30: process() returns the violations, the compliance dicts and the risk
   level of the video result alone, whether the LLM call succeeds, returns
   text that is no JSON or raises; the LLM outcome reaches only the summary,
   and no LLM outcome makes process() raise: a failed call yields the
   auto-generated summary.
   A response whose "summary" is null is returned by the parser as None, and
   SafetyReport rejects it: process() raises and returns no report. *)
C30_LLMOutcomeReachesOnlySummary ==
    safety_pc \in {"returned", "raised"} =>
        /\ safety_pc = "returned"
        /\ report.violations = run_deterministic_checks(video_result)
        /\ report.ppe_compliance =
               compute_compliance(video_result, report.violations).ppe_compliance
        /\ report.zone_adherence =
               compute_compliance(video_result, report.violations).zone_adherence
        /\ report.overall_risk = compute_overall_risk(report.violations)
        /\ raw_response.call = "raised" =>
               report.summary =
                   AutoSummary(report.violations, report.overall_risk).text

\* The exception is an instance of the class of this name.
IsA(exc, class) == \E i \in 1..Len(exc) : exc[i] = class

(* C29: _db_query calls the query at most twice.  After a ReadError of the
   first call it resets the client singleton once and calls the query once
   more, and gives its caller what that second call gives, value or
   exception, without a third call; after a value or any other exception of
   the first call it gives that to its caller, after this one call and
   without a reset. *)
C29_ReadErrorRetriedOnceOthersNever ==
    /\ Len(invocations) <= 2 /\ resets <= 1
    /\ \A k \in 1..Len(db_log) :
          LET q == db_log[k]
              earlier == q.invocations[1]
          IN  /\ q.result = q.invocations[Len(q.invocations)]
              /\ IF IsRaise(earlier) /\ IsA(earlier, "Exception")
                    /\ IsA(earlier, "ReadError")
                 THEN Len(q.invocations) = 2 /\ q.resets = 1 /\ q.client = "None"
                 ELSE Len(q.invocations) = 1 /\ q.resets = 0 /\ q.client = "client"

\* One query was retried after a subclass of ReadError and its retry raised
\* a read error again; another raised an exception that is no read error.
C29_Witness ==
    /\ \E k \in 1..Len(db_log) :
          /\ Len(db_log[k].invocations) = 2
          /\ db_log[k].invocations[1][1] = "StaleConnection"
          /\ IsRaise(db_log[k].result) /\ IsA(db_log[k].result, "ReadError")
    /\ \E k \in 1..Len(db_log) :
          /\ IsRaise(db_log[k].result) /\ db_log[k].invocations[1][1] = "APIError"

\* The status changes the job's life cycle allows.
AllowedStatusChanges ==
    { << "queued", "processing" >>, << "processing", "completed" >>,
      << "processing", "failed" >> }

(* C27: the job's status only moves queued -> processing -> completed or
   queued -> processing -> failed, and completed and failed are never left,
   under any interleaving of _process_video with the complete_job callback.
   complete_job sets the status to completed whatever it is, and
   _process_video sets processing, completed and failed without looking at
   the status the callback has set. *)
C27_StatusFollowsLifeCycle ==
    /\ status_log # <<>> => status_log[1] = "queued"
    /\ \A i \in 1..(Len(status_log) - 1) :
          \/ status_log[i + 1] = status_log[i]
          \/ << status_log[i], status_log[i + 1] >> \in AllowedStatusChanges

\* The calls _process_video awaited, by name.
AttemptsOf(call) == { i \in 1..Len(attempts) : attempts[i].call = call }

Raised(call) == \E i \in AttemptsOf(call) : attempts[i].raised

\* What the channel has received once _process_video has run through its
\* three agents.
ChainBroadcasts ==
    << "video_complete",
       IF Raised("safety") \/ Raised("save_safety_report")
       THEN "error" ELSE "safety_complete",
       IF Raised("productivity") THEN "error" ELSE "productivity_complete",
       "pipeline_complete" >>

\* The chain after a video step that failed, and after one that did not.
FailedChain ==
    /\ \E i \in 1..Len(status_log) : status_log[i] = "failed"
    /\ broadcasts = << "error" >>
    /\ AttemptsOf("safety") = {} /\ AttemptsOf("productivity") = {}

FullChain ==
    /\ Cardinality(AttemptsOf("safety")) = 1
    /\ Cardinality(AttemptsOf("productivity")) = 1
    /\ \A i \in AttemptsOf("safety") : \A j \in AttemptsOf("productivity") : i < j
    /\ broadcasts = ChainBroadcasts

\* pipeline_complete is the last message and follows video_complete and one
\* message of each agent.
PipelineCompleteLast ==
    \A i \in 1..Len(broadcasts) :
        broadcasts[i] = "pipeline_complete" =>
            /\ i = Len(broadcasts) /\ i = Len(ChainBroadcasts)
            /\ task_pc = "returned"
            /\ broadcasts[1] = "video_complete"

(* C28 as stated: if the video agent raises, the job is marked failed, one
   error is broadcast and neither agent runs; if it succeeds, the safety and
   then the productivity agent are each attempted exactly once, and
   pipeline_complete is broadcast last. *)
C28_AgentsChainedAfterVideoAgent ==
    /\ PipelineCompleteLast
    /\ task_pc = "returned" =>
          IF Raised("video") THEN FailedChain ELSE FullChain

(* C28: if the video agent raises, or saving its result raises, the job is
   marked failed, one error message is broadcast and neither the safety nor
   the productivity agent runs; if both succeed, the safety agent and then
   the productivity agent are each attempted exactly once, whether or not
   the safety step fails, and pipeline_complete is broadcast last on the
   channel, after video_complete and after one complete-or-error message of
   each agent. *)
C28_AgentsChainedAfterVideoStep ==
    /\ PipelineCompleteLast
    /\ task_pc = "returned" =>
          IF Raised("video") \/ Raised("save_video_result")
          THEN FailedChain ELSE FullChain

\* The safety agent raised and the productivity agent ran all the same,
\* before pipeline_complete.
C28_Witness ==
    /\ task_pc = "returned"
    /\ Raised("safety") /\ ~Raised("productivity")
    /\ broadcasts = << "video_complete", "error", "productivity_complete",
                       "pipeline_complete" >>

=============================================================================
